---- MODULE Spec2Model ----
(***************************************************************************)
(* Model of the PetLLM chat core: the background fact-extraction pipeline  *)
(* (app/utils/fact_extractor.py), the completion adapter                   *)
(* (app/utils/chat_handler.py), the prompt builder and its language        *)
(* detection (app/utils/prompt_builder.py, prompt_builder_test.py) and the *)
(* chat request handler (app/api/llm_chat_route.py).                       *)
(*                                                                         *)
(* Text is modelled as a sequence of tokens.  A token of a completion      *)
(* reply is a brace, a run of whitespace, a run of brace-free prose, or    *)
(* one well-formed member  "key": value  of a JSON object.  A key is a     *)
(* sequence of chunks, " " being a run of whitespace.                      *)
(***************************************************************************)
EXTENDS Integers, Sequences, FiniteSets, TLC

\* ------------------------------------------------------------------ bounds
MaxReplyLen == 4      \* longest completion reply, in tokens

\* ------------------------------------------------------------ small helpers
Range(f) == {f[i] : i \in DOMAIN f}

SeqsUpTo(S, n) == UNION {[1..m -> S] : m \in 0..n}

EmptyMap == [z \in {} |-> "v1"]

MapSet(f, x, y) == [z \in (DOMAIN f) \cup {x} |-> IF z = x THEN y ELSE f[z]]

\* --------------------------------------------------------- reply alphabet
WS == " "

Keys == {<<"name">>, <<"loc">>, <<WS, "loc", WS>>, <<WS>>}

Values == {"v1", "v2"}

Tok(t, k, v) == [t |-> t, k |-> k, v |-> v]

LB == Tok("{", <<>>, "")
RB == Tok("}", <<>>, "")
SP == Tok(WS, <<>>, "")
PROSE == Tok("prose", <<>>, "")
\* a code-fence marker
FENCE == Tok("fence", <<>>, "")

Pairs == {Tok("pair", k, v) : k \in Keys, v \in Values}

Alphabet == {LB, RB, SP, PROSE} \cup Pairs

\* ------------------------------------------------ str.strip / find / rfind
\* strip of leading / trailing occurrences of the whitespace element w
RECURSIVE LStrip(_, _)
LStrip(s, w) ==
    IF s = <<>> THEN <<>>
    ELSE IF Head(s) = w THEN LStrip(Tail(s), w) ELSE s

RECURSIVE RStrip(_, _)
RStrip(s, w) ==
    IF s = <<>> THEN <<>>
    ELSE IF s[Len(s)] = w THEN RStrip(SubSeq(s, 1, Len(s) - 1), w) ELSE s

\* key.strip()
StripKey(k) == RStrip(LStrip(k, WS), WS)

\* actual_llm_output.strip()
StripText(s) == RStrip(LStrip(s, SP), SP)

\* str.find: 0-based index of the first occurrence, -1 when absent
Find(s, tk) ==
    IF \E i \in 1..Len(s) : s[i] = tk
    THEN (CHOOSE i \in 1..Len(s) : s[i] = tk /\ \A j \in 1..(i - 1) : s[j] # tk) - 1
    ELSE -1

\* str.rfind: 0-based index of the last occurrence, -1 when absent
RFind(s, tk) ==
    IF \E i \in 1..Len(s) : s[i] = tk
    THEN (CHOOSE i \in 1..Len(s) : s[i] = tk /\ \A j \in (i + 1)..Len(s) : s[j] # tk) - 1
    ELSE -1

\* s[a:b] for 0 <= a
Slice(s, a, b) == SubSeq(s, a + 1, IF b > Len(s) THEN Len(s) ELSE b)

\* ---------------------------------------------------------------- json.loads
\* dict insertion: a repeated key keeps its first position and takes the
\* last value
RECURSIVE DictPut(_, _, _)
DictPut(d, k, v) ==
    IF d = <<>> THEN << [k |-> k, v |-> v] >>
    ELSE IF Head(d).k = k THEN << [k |-> k, v |-> v] >> \o Tail(d)
    ELSE << Head(d) >> \o DictPut(Tail(d), k, v)

RECURSIVE DictFromPairs(_)
DictFromPairs(ps) ==
    IF ps = <<>> THEN <<>>
    ELSE LET d == DictFromPairs(SubSeq(ps, 1, Len(ps) - 1))
             last == ps[Len(ps)]
         IN  DictPut(d, last.k, last.v)

\* json.loads of a text that the brace scan produced: whitespace between
\* members is skipped, the text must be  { member* }  and nothing else;
\* ok = FALSE stands for json.JSONDecodeError
JsonLoads(s) ==
    LET body == SelectSeq(s, LAMBDA tk : tk # SP)
        n == Len(body)
        ok == /\ n >= 2
              /\ body[1] = LB
              /\ body[n] = RB
              /\ \A i \in 2..(n - 1) : body[i].t = "pair"
    IN  [ok |-> ok, obj |-> IF ok THEN DictFromPairs(SubSeq(body, 2, n - 1)) ELSE <<>>]

\* ------------------------------------------------- the completion adapter
\* What the completion backend does with one call: it answers with a
\* message content (a text or None) or the client raises.
BackendOk(none, text) == [kind |-> "ok", none |-> none, text |-> text, msg |-> {}]
BackendGroqError(msg) == [kind |-> "groq_error", none |-> TRUE, text |-> <<>>, msg |-> msg]
BackendOtherError == [kind |-> "other_error", none |-> TRUE, text |-> <<>>, msg |-> {}]

\* the normalized envelope; its JSON text is what the adapter returns
Envelope(status, none, text, code) ==
    [status |-> status, none |-> none, text |-> text, code |-> code]

\* the error code chosen from the exception message; msg is the set of
\* indicator substrings the message contains
ErrorCode(msg) ==
    IF "401" \in msg \/ "unauthor" \in msg \/ "auth" \in msg THEN "AI_AUTH_ERROR"
    ELSE IF "rate" \in msg \/ "429" \in msg THEN "AI_RATE_LIMIT"
    ELSE IF "503" \in msg \/ "unavail" \in msg \/ "timeout" \in msg THEN "AI_UNAVAILABLE"
    ELSE "AI_SERVICE_ERROR"

\* the adapter's return value: json.dumps of the envelope (json = TRUE: the
\* string is a JSON text whose value is env)
JsonDumps(env) == [json |-> TRUE, env |-> env]

generate_response(b) ==
    IF b.kind = "ok" THEN JsonDumps(Envelope("success", b.none, b.text, ""))
    ELSE IF b.kind = "groq_error" THEN JsonDumps(Envelope("error", TRUE, <<>>, ErrorCode(b.msg)))
    ELSE JsonDumps(Envelope("error", TRUE, <<>>, "AI_UNAVAILABLE"))

\* a string that is not a JSON text
NotJson == [json |-> FALSE, env |-> Envelope("error", TRUE, <<>>, "")]

\* ------------------------------------------------------ the profile store
BioPath(k) == [field |-> "biography", key |-> k]
NamePath == [field |-> "first_name", key |-> <<>>]

\* variant: the update replaces the biography sub-document by the new facts
UpdateOneReplaceBiography(doc, fields) ==
    LET newKeys == {q.key : q \in {r \in DOMAIN fields : r.field = "biography"}}
    IN  [first_name |-> IF NamePath \in DOMAIN fields THEN fields[NamePath]
                        ELSE doc.first_name,
         biography |-> [k \in newKeys |-> fields[BioPath(k)]]]

\* variant: the update sets only the fields the document does not have yet
UpdateOneSetIfAbsent(doc, fields) ==
    LET newKeys == {q.key : q \in {r \in DOMAIN fields : r.field = "biography"}}
    IN  [first_name |-> IF NamePath \in DOMAIN fields THEN fields[NamePath]
                        ELSE doc.first_name,
         biography |-> [k \in (DOMAIN doc.biography) \cup newKeys |->
                           IF k \in DOMAIN doc.biography THEN doc.biography[k]
                           ELSE fields[BioPath(k)]]]

\* variant: the update appends to the value a key already has
UpdateOneAppend(doc, fields) ==
    LET newKeys == {q.key : q \in {r \in DOMAIN fields : r.field = "biography"}}
    IN  [first_name |-> IF NamePath \in DOMAIN fields THEN fields[NamePath]
                        ELSE doc.first_name,
         biography |-> [k \in (DOMAIN doc.biography) \cup newKeys |->
                           IF BioPath(k) \notin DOMAIN fields THEN doc.biography[k]
                           ELSE IF k \in DOMAIN doc.biography
                                THEN doc.biography[k] \o "," \o fields[BioPath(k)]
                                ELSE fields[BioPath(k)]]]

\* update_one(..., {"$set": fields}): a partial-field set on the document
UpdateOneSet(doc, fields) ==
    LET newKeys == {q.key : q \in {r \in DOMAIN fields : r.field = "biography"}}
    IN  [first_name |-> IF NamePath \in DOMAIN fields THEN fields[NamePath]
                        ELSE doc.first_name,
         biography |-> [k \in (DOMAIN doc.biography) \cup newKeys |->
                           IF BioPath(k) \in DOMAIN fields THEN fields[BioPath(k)]
                           ELSE doc.biography[k]]]

\* --------------------------------------- extract_and_save_user_facts, body
\* variant: the dictionary comprehension without key validation
RECURSIVE BuildUpdateFieldsUnchecked(_, _)
BuildUpdateFieldsUnchecked(items, acc) ==
    IF items = <<>> THEN acc
    ELSE BuildUpdateFieldsUnchecked(Tail(items),
                                    MapSet(acc, BioPath(Head(items).k), Head(items).v))

\* the loop over extracted_facts.items() that builds update_fields
RECURSIVE BuildUpdateFields(_, _)
BuildUpdateFields(items, acc) ==
    IF items = <<>> THEN acc
    ELSE LET key == Head(items).k
             value == Head(items).v
         IN  IF StripKey(key) = <<>>
             THEN BuildUpdateFields(Tail(items), acc)
             ELSE BuildUpdateFields(Tail(items), MapSet(acc, BioPath(StripKey(key)), value))

\* variant: the update carries the biography paths only
AliasNameDropped(fields) == fields

\* the special 'name' case
AliasName(fields) ==
    IF BioPath(<<"name">>) \in DOMAIN fields
    THEN MapSet(fields, NamePath, fields[BioPath(<<"name">>)])
    ELSE fields

Ended(how) == [how |-> how, fields |-> EmptyMap]

\* variant: the whole stripped reply is handed to json.loads
BraceScanWholeText(json_str) == json_str

\* json_str[start : end + 1] with start = find('{') and end = rfind('}');
\* empty when the last '}' stands before the first '{'
BraceScan(json_str) == Slice(json_str, Find(json_str, LB), RFind(json_str, RB) + 1)

\* Everything the function does between the return of generate_response
\* and either its own return or the call of update_one (there is no
\* suspension point in between).  how names the exit taken.
ProcessOutput(out) ==
    IF ~out.json
    \* json.JSONDecodeError at the first json.loads: the handler formats
    \* actual_llm_output, which is not bound yet, and the NameError leaves
    \* the function
    THEN Ended("raised")
    ELSE IF out.env.status = "error" THEN Ended("llm_error")
    ELSE IF out.env.none \/ out.env.text = <<>> THEN Ended("empty")
    ELSE LET stripped == StripText(out.env.text)
             start == Find(stripped, LB)
             end == RFind(stripped, RB)
         IN  IF start = -1 \/ end = -1 THEN Ended("no_object")
             ELSE LET loaded == JsonLoads(BraceScan(stripped))
                  IN  IF ~loaded.ok THEN Ended("decode_error")
                      ELSE IF loaded.obj = <<>> THEN Ended("no_facts")
                      ELSE LET update_fields == BuildUpdateFields(loaded.obj, EmptyMap)
                           IN  IF DOMAIN update_fields = {} THEN Ended("no_valid_facts")
                               ELSE [how |-> "update_one",
                                     fields |-> AliasName(update_fields)]

\* ------------------------------------------------------ language detection
\* A text is a sequence of runs of characters of one class, with the run's
\* length, plus what its lower-cased form is in the short-token lexicons:
\* "greeting" (in ENGLISH_SHORT_GREETINGS and ENGLISH_SHORT_TOKENS),
\* "token" (in ENGLISH_SHORT_TOKENS only) or "none".
MaxRuns == 2          \* longest message, in runs

RunLens == {1, 3, 11}

CharClasses == {"hangul", "hiragana", "katakana", "cjk", "latin", "space"}

Run(cls, n) == [cls |-> cls, n |-> n]

Runs == {Run(c, n) : c \in CharClasses, n \in RunLens}

Text(runs, lex) == [runs |-> runs, lex |-> lex]

\* str.strip() and len() on a text
StripRuns(rs) ==
    LET isSpace(i) == rs[i].cls = "space"
        keep == {i \in 1..Len(rs) : ~isSpace(i)}
    IN  IF keep = {} THEN <<>>
        ELSE LET lo == CHOOSE i \in keep : \A j \in keep : i <= j
                 hi == CHOOSE i \in keep : \A j \in keep : j <= i
             IN  SubSeq(rs, lo, hi)

RECURSIVE RunsLen(_)
RunsLen(rs) == IF rs = <<>> THEN 0 ELSE Head(rs).n + RunsLen(Tail(rs))

TextStrip(t) == Text(StripRuns(t.runs), t.lex)

TextLen(t) == RunsLen(t.runs)

\* the shortest and longest entry of the lexicons ("hi", "good afternoon")
MinLexLen == 2
MaxLexLen == 14

\* a text can only spell a lexicon entry if it is made of letters and
\* spaces and has the length of one
LexConsistent(t) ==
    t.lex # "none" =>
        /\ \A i \in 1..Len(t.runs) : t.runs[i].cls \in {"latin", "space"}
        /\ RunsLen(StripRuns(t.runs)) >= MinLexLen
        /\ RunsLen(StripRuns(t.runs)) <= MaxLexLen

Texts(n) ==
    {t \in {Text(rs, lx) : rs \in SeqsUpTo(Runs, n), lx \in {"none", "greeting", "token"}} :
        LexConsistent(t)}

SUPPORTED_LANGUAGE_CODES == {"en", "ko", "ja"}
MIN_CHARS_FOR_RELIABLE_DETECTION == 15
SAFE_DEFAULT == "en"
None == "none"

\* prompt_builder.py: the first character in one of the ranges decides
script_lang(rs) ==
    LET hits == {i \in 1..Len(rs) : rs[i].cls \in {"hiragana", "katakana", "cjk", "hangul"}}
    IN  IF hits = {} THEN None
        ELSE LET first == CHOOSE i \in hits : \A j \in hits : i <= j
             IN  IF rs[first].cls = "hangul" THEN "ko" ELSE "ja"

\* prompt_builder_test.py: RE_JA is searched before RE_KO
detect_script_via_regex(rs) ==
    IF \E i \in 1..Len(rs) : rs[i].cls \in {"hiragana", "katakana", "cjk"} THEN "ja"
    ELSE IF \E i \in 1..Len(rs) : rs[i].cls = "hangul" THEN "ko"
    ELSE None

\* msg.lower() in ENGLISH_SHORT_GREETINGS / ENGLISH_SHORT_TOKENS
InShortGreetings(t) == t.lex = "greeting"
InShortTokens(t) == t.lex \in {"greeting", "token"}

\* What langdetect may answer.  detect_langs: it raises, returns an empty
\* list, or a list whose first entry is (lang, prob), prob in percent;
\* detect: it raises or returns a code.
DetectedCodes == {"en", "ko", "fr"}

DetectLangsTop(lang, prob) == [kind |-> "top", lang |-> lang, prob |-> prob]

DetectLangsOutcomes ==
    {[kind |-> "raise", lang |-> None, prob |-> 0],
     [kind |-> "empty", lang |-> None, prob |-> 0]}
        \cup {DetectLangsTop(l, q) : l \in DetectedCodes, q \in {79, 80, 84, 85}}

DetectOutcomes == {"raise"} \cup DetectedCodes

\* variant: the top candidate is accepted on confidence alone
prob_detect_any_code(o, threshold) ==
    IF o.kind = "top" /\ o.prob >= threshold THEN o.lang ELSE None

\* _prob_detect with the confidence threshold of the file (80 or 85)
prob_detect(o, threshold) ==
    IF o.kind = "top" /\ o.prob >= threshold /\ o.lang \in SUPPORTED_LANGUAGE_CODES
    THEN o.lang
    ELSE None

\* a result of the detection: the code (or None) and the detector calls
\* made on the way, each with whether it returned or raised
Found(lang, calls) == [lang |-> lang, calls |-> calls]

Called(fn, raised) == IF raised THEN fn \o ":raised" ELSE fn

\* try: det = detect(s); accept only supported codes
DetectStep(calls) ==
    {Found(IF d \in SUPPORTED_LANGUAGE_CODES THEN d ELSE None,
           Append(calls, Called("detect", d = "raise"))) :
        d \in DetectOutcomes}

\* if len >= MIN_CHARS: lang = _prob_detect(s)
ProbStep(t, threshold) ==
    IF TextLen(t) >= MIN_CHARS_FOR_RELIABLE_DETECTION
    THEN {Found(prob_detect(o, threshold), <<Called("detect_langs", o.kind = "raise")>>) :
             o \in DetectLangsOutcomes}
    ELSE {Found(None, <<>>)}

\* variant: the short-message check runs before the script sniff
TiersMainShortFirst(t) ==
    IF TextLen(t) < 4 \/ InShortGreetings(t) THEN {Found(SAFE_DEFAULT, <<>>)}
    ELSE IF script_lang(t.runs) \in SUPPORTED_LANGUAGE_CODES
    THEN {Found(script_lang(t.runs), <<>>)}
    ELSE UNION {IF r.lang # None THEN {r} ELSE DetectStep(r.calls) : r \in ProbStep(t, 80)}

\* prompt_builder.py lines 70-92 (current message) and 105-124 (owner
\* line): script, short/greeting, probabilistic, single detect
TiersMain(t) ==
    IF script_lang(t.runs) \in SUPPORTED_LANGUAGE_CODES
    THEN {Found(script_lang(t.runs), <<>>)}
    ELSE IF TextLen(t) < 4 \/ InShortGreetings(t) THEN {Found(SAFE_DEFAULT, <<>>)}
    ELSE UNION {IF r.lang # None THEN {r} ELSE DetectStep(r.calls) : r \in ProbStep(t, 80)}

\* variant: the short-message check of the current message looks only at
\* the lexicon, not at the length
TiersTestCurrentLexiconOnly(t) ==
    IF detect_script_via_regex(t.runs) # None
    THEN {Found(detect_script_via_regex(t.runs), <<>>)}
    ELSE IF InShortTokens(t) THEN {Found(SAFE_DEFAULT, <<>>)}
    ELSE IF TextLen(t) >= MIN_CHARS_FOR_RELIABLE_DETECTION
    THEN UNION {IF r.lang # None THEN {r} ELSE DetectStep(r.calls) : r \in ProbStep(t, 85)}
    ELSE {Found(None, <<>>)}

\* prompt_builder_test.py lines 69-89: the single detect runs only inside
\* the length check
TiersTestCurrent(t) ==
    IF detect_script_via_regex(t.runs) # None
    THEN {Found(detect_script_via_regex(t.runs), <<>>)}
    ELSE IF TextLen(t) < 5 \/ InShortTokens(t) THEN {Found(SAFE_DEFAULT, <<>>)}
    ELSE IF TextLen(t) >= MIN_CHARS_FOR_RELIABLE_DETECTION
    THEN UNION {IF r.lang # None THEN {r} ELSE DetectStep(r.calls) : r \in ProbStep(t, 85)}
    ELSE {Found(None, <<>>)}

\* prompt_builder_test.py lines 106-118: script, lexicon, probabilistic
TiersTestPrevious(t) ==
    IF detect_script_via_regex(t.runs) # None
    THEN {Found(detect_script_via_regex(t.runs), <<>>)}
    ELSE IF InShortTokens(t) THEN {Found(SAFE_DEFAULT, <<>>)}
    ELSE ProbStep(t, 85)

\* a line of the memory snippet: "<who>: <text>"
Line(who, t) == [who |-> who, text |-> t]

\* an empty capture
NoCapture == Text(<<>>, "none")

\* prompt_builder.py lines 97-126: the reverse scan of the memory snippet
\* for lines that start with "<owner_name>:"; lines is in chronological
\* order.  A line whose text is empty is skipped (continue); the scan
\* stops at the first owner line with text (break).
RECURSIVE ScanLines(_, _)
ScanLines(lines, owner_name) ==
    IF lines = <<>> THEN {Found(None, <<>>)}
    ELSE LET ln == lines[Len(lines)]
             older == SubSeq(lines, 1, Len(lines) - 1)
             prev_msg == TextStrip(ln.text)
         IN  IF ln.who # owner_name THEN ScanLines(older, owner_name)
             ELSE IF prev_msg.runs = <<>> THEN ScanLines(older, owner_name)
             ELSE TiersMain(prev_msg)

\* a whole line of the snippet as text: "<who>:", and " <text>" if any
LineAsText(ln) ==
    LET body == TextStrip(ln.text).runs
    IN  Text(<<Run("latin", 4)>> \o (IF body = <<>> THEN <<>> ELSE <<Run("space", 1)>> \o body),
             "none")

\* prompt_builder_test.py lines 95-96: the captures of
\* ^<owner_name>:\s*(.*)$ over the snippet, oldest first.  \s* also runs
\* over the end of a line, so an owner line without text captures the
\* whole line that follows it, which is then not matched on its own.
RECURSIVE OwnerMatches(_, _, _)
OwnerMatches(lines, owner_name, i) ==
    IF i > Len(lines) THEN <<>>
    ELSE IF lines[i].who # owner_name THEN OwnerMatches(lines, owner_name, i + 1)
    ELSE IF TextStrip(lines[i].text).runs # <<>>
    THEN <<lines[i].text>> \o OwnerMatches(lines, owner_name, i + 1)
    ELSE IF i < Len(lines)
    THEN <<LineAsText(lines[i + 1])>> \o OwnerMatches(lines, owner_name, i + 2)
    ELSE <<NoCapture>>

\* prompt_builder_test.py lines 98-119: the captures in reverse; an empty
\* one is skipped, the first with text decides and ends the scan
RECURSIVE ScanMatches(_)
ScanMatches(matches) ==
    IF matches = <<>> THEN {Found(None, <<>>)}
    ELSE LET prev_msg == TextStrip(matches[Len(matches)])
         IN  IF prev_msg.runs = <<>> THEN ScanMatches(SubSeq(matches, 1, Len(matches) - 1))
             ELSE TiersTestPrevious(prev_msg)

\* the history fallback of the file
ScanHistory(lines, owner_name, previous) ==
    IF previous = "main" THEN ScanLines(lines, owner_name)
    ELSE ScanMatches(OwnerMatches(lines, owner_name, 1))

\* `if memory_snippet and owner_name:` and the final default
HistoryThenDefault(cur, owner_name, lines, previous) ==
    UNION {IF c.lang # None THEN {c}
           ELSE IF lines # <<>> /\ owner_name # ""
                THEN {Found(IF h.lang # None THEN h.lang ELSE SAFE_DEFAULT, c.calls \o h.calls) :
                         h \in ScanHistory(lines, owner_name, previous)}
                ELSE {Found(SAFE_DEFAULT, c.calls)} : c \in cur}

\* prompt_builder.py: every result the function can return for the inputs
detect_language_from_message(message, owner_name, lines) ==
    LET msg == TextStrip(message)
        cur == IF msg.runs # <<>> THEN TiersMain(msg) ELSE {Found(None, <<>>)}
    IN  HistoryThenDefault(cur, owner_name, lines, "main")

\* prompt_builder_test.py: every result the function can return
detect_language_from_message_test(message, owner_name, lines) ==
    LET msg == TextStrip(message)
        cur == IF msg.runs # <<>> THEN TiersTestCurrent(msg) ELSE {Found(None, <<>>)}
    IN  HistoryThenDefault(cur, owner_name, lines, "test")


\* ----------------------------------------------------------- prompt builder
\* The trait engines are opaque: a summary names the engine and what it
\* was built from.
Modifier(engine, of) == [engine |-> engine, of |-> of]

Moods == {"excited", "sad", "sleepy"}

\* BehaviorEngine(input).get_summary(); the vitals are represented by the
\* mood the engine derives from them
BehaviorSummary(vitals) == [mood |-> vitals, modifier |-> Modifier("behavior", vitals)]
PersonalitySummary(personality) == [modifier |-> Modifier("personality", personality)]
BreedSummary(breed) == [modifier |-> Modifier("breed", breed)]
LifestageSummary(age_stage) == [summary |-> Modifier("lifestage", age_stage)]

Absent == "absent"

\* dict.get(key, default) on a field that may be absent
Get(value, default) == IF value = Absent THEN default ELSE value

\* lifestage_map.get(str(life_stage_id), "Adult")
AgeStage(life_stage_id) ==
    IF life_stage_id = "1" THEN "Baby"
    ELSE IF life_stage_id = "2" THEN "Teen"
    ELSE "Adult"

\* the fixed text of the hibernation override
HibernationDirective == Modifier("override", "hibernating")

\* one numbered rule of the directive block
Rule(n, kind, about, text) == [n |-> n, kind |-> kind, about |-> about, text |-> text]

\* `if pet_status:` - None and the empty dict are falsy
Truthy(pet_status) == pet_status.kind = "dict"

\* hibernating = pet_status.get("hibernation_mode") == "1"
Hibernating(pet_status) == pet_status.hibernation_mode = "1"

\* variant: the override gives way to an excited mood
PrimaryRuleUnlessExcited(pet_status) ==
    IF Hibernating(pet_status) /\ pet_status.vitals # "excited"
    THEN Rule(1, "primary", "", HibernationDirective)
    ELSE Rule(1, "primary", "", BehaviorSummary(pet_status.vitals).modifier)

\* rule 1: the hibernation override or the behaviour modifier
PrimaryRule(pet_status) ==
    IF Hibernating(pet_status)
    THEN Rule(1, "primary", "", HibernationDirective)
    ELSE Rule(1, "primary", "", BehaviorSummary(pet_status.vitals).modifier)

\* variant: a hibernating pet gets the override and the final rule only
DirectiveOverrideOnly(pet_status, personality, personality_arg, breed, breed_arg, age_stage) ==
    IF Hibernating(pet_status)
    THEN << PrimaryRule(pet_status), Rule(5, "context", "", Modifier("fixed", "owner profile")) >>
    ELSE << PrimaryRule(pet_status),
            Rule(2, "personality", personality, PersonalitySummary(personality_arg).modifier),
            Rule(3, "breed", breed, BreedSummary(breed_arg).modifier),
            Rule(4, "lifestage", age_stage, LifestageSummary(age_stage).summary),
            Rule(5, "context", "", Modifier("fixed", "owner profile")) >>

\* the directive block: rule 1, then the personality, breed, lifestage and
\* context rules; personality / breed are the labels printed in the rule,
\* personality_arg / breed_arg what the engines were built from
Directive(pet_status, personality, personality_arg, breed, breed_arg, age_stage) ==
    << PrimaryRule(pet_status),
       Rule(2, "personality", personality, PersonalitySummary(personality_arg).modifier),
       Rule(3, "breed", breed, BreedSummary(breed_arg).modifier),
       Rule(4, "lifestage", age_stage, LifestageSummary(age_stage).summary),
       Rule(5, "context", "", Modifier("fixed", "owner profile")) >>

\* the status block: mood and the sick / hibernating read-outs
StatusBlock(pet_status) ==
    [mood |-> BehaviorSummary(pet_status.vitals).mood,
     sick |-> pet_status.is_sick = "1",
     hibernating |-> Hibernating(pet_status)]

NoStatusBlock == [mood |-> "", sick |-> FALSE, hibernating |-> FALSE]

\* what a call of build_pet_prompt produces: the prompt, or an exception
Prompt(directive, status, owner, lines, profile_fields, knowledge, lang) ==
    [raised |-> FALSE, directive |-> directive, status |-> status, owner |-> owner,
     memory |-> lines, profile_fields |-> profile_fields, knowledge |-> knowledge,
     lang |-> lang]

PromptRaised ==
    [raised |-> TRUE, directive |-> <<>>, status |-> NoStatusBlock, owner |-> "",
     memory |-> <<>>, profile_fields |-> {}, knowledge |-> EmptyMap, lang |-> None]

\* the owner-profile lines: those of age, gender, profession that are set
ProfileFields(biography_snippet) ==
    (DOMAIN biography_snippet) \cap {<<"age">>, <<"gender">>, <<"profession">>}

\* prompt_builder.build_pet_prompt: response_directive is assigned only
\* under `if pet_status:`; without a status the f-string of the return
\* statement reads an unbound local and the call raises
build_pet_prompt(pet, owner_name, lines, pet_status, biography_snippet, message) ==
    LET owner == Get(pet.kb_owner_name, owner_name)
        personality == Get(pet.personality, "Gentle")
        breed == Get(pet.breed, "Unknown Breed")
        age_stage == AgeStage(Get(pet.life_stage_id, "3"))
    IN  IF ~Truthy(pet_status) THEN {PromptRaised}
        ELSE {Prompt(Directive(pet_status, personality, personality, breed, breed, age_stage),
                     StatusBlock(pet_status), owner, lines,
                     ProfileFields(biography_snippet), biography_snippet, r.lang) :
                 r \in detect_language_from_message(message, owner, lines)}

\* prompt_builder_test.build_pet_prompt: directive_str and status_str start
\* as empty strings
build_pet_prompt_test(pet, owner_name, lines, pet_status, biography_snippet, message) ==
    LET final_owner_name == Get(pet.kb_owner_name, owner_name)
        age_stage == AgeStage(Get(pet.life_stage_id, "3"))
    IN  {Prompt(IF Truthy(pet_status)
                THEN Directive(pet_status, pet.personality, Get(pet.personality, "Gentle"),
                               pet.breed, Get(pet.breed, "Unknown"), age_stage)
                ELSE <<>>,
                IF Truthy(pet_status) THEN StatusBlock(pet_status) ELSE NoStatusBlock,
                final_owner_name, lines, ProfileFields(biography_snippet), EmptyMap,
                r.lang) :
            r \in detect_language_from_message_test(message, final_owner_name, lines)}


\* ----------------------------------------------------------------- state
VARIABLES
    profile,     \* the user's document in user_profiles_collection
    pc,          \* where each extraction task stands
    resp,        \* the adapter output the task received
    exit,        \* the exit the task took (see ProcessOutput)
    pending,     \* the update_fields of the task's update_one call
    llm_calls,   \* completion calls made by the current execution
    writes,      \* update_one calls made by the current execution
    last_writer, \* the task whose update was applied last (0: none)
    call_order,  \* the running executions, in the order they started
    lang_in,     \* arguments of a call of _detect_language_from_message
    lang_out,    \* what the call returned
    lang_again,  \* what a second call with the same arguments returned
    prompt_in,   \* arguments of a call of build_pet_prompt
    prompt_out,  \* what the call produced
    hpc,         \* where each chat request handler stands
    data,        \* the handler's locals after _fetch_chat_data
    sent,        \* what the handler's completion call handed to the backend
    reply,       \* the handler's response, or the error it raised
    convo,       \* the conversation store: the turns, oldest first
    route,       \* the route module that serves the chat requests
    ai_calls,    \* backend invocations made on each request's reply path
    ai_out,      \* what generate_response gave each request's reply path
    tr_in,       \* the last call of a function of language_translator
    tr_out,      \* how that call ended
    tr_cache,    \* the memo tables of the three functions
    ad           \* a call of generate_response of each provider

taskVars == <<profile, pc, resp, exit, pending, llm_calls, writes, last_writer, call_order>>

langVars == <<lang_in, lang_out, lang_again>>

promptVars == <<prompt_in, prompt_out>>

chatVars == <<hpc, data, sent, reply, convo, route, ai_calls, ai_out>>

trVars == <<tr_in, tr_out, tr_cache>>

vars == <<taskVars, langVars, promptVars, chatVars, trVars, ad>>

Tasks == {1, 2}

InitialProfile ==
    [first_name |-> "Friend", biography |-> [k \in {<<"hobby">>} |-> "v0"]]

NoOutput == NotJson

\* no call of the language detection is under way
NoText == Text(<<>>, "none")

LangIdle ==
    /\ lang_in = [file |-> "none", message |-> NoText, owner_name |-> "", lines |-> <<>>]
    /\ lang_out = [done |-> FALSE, lang |-> None, calls |-> <<>>]
    /\ lang_again = [done |-> FALSE, lang |-> None, calls |-> <<>>]

\* the adapter outputs that chat_handler.generate_response can produce
Replies == SeqsUpTo(Alphabet, MaxReplyLen)

BackendOutcomes ==
    {BackendOk(FALSE, t) : t \in Replies}
        \cup {BackendOk(TRUE, <<>>), BackendOtherError}
        \cup {BackendGroqError(m) : m \in {{}, {"rate"}}}

AdapterOutputs == {generate_response(b) : b \in BackendOutcomes}

InitTasks ==
    /\ profile = InitialProfile
    /\ pc = [p \in Tasks |-> "idle"]
    /\ resp = [p \in Tasks |-> NoOutput]
    /\ exit = [p \in Tasks |-> "none"]
    /\ pending = [p \in Tasks |-> EmptyMap]
    /\ llm_calls = [p \in Tasks |-> 0]
    /\ writes = [p \in Tasks |-> 0]
    /\ last_writer = 0
    /\ call_order = <<>>

\* the task starts and awaits generate_response
CallCompletion(p) ==
    /\ pc[p] = "idle"
    /\ pc' = [pc EXCEPT ![p] = "await_llm"]
    /\ llm_calls' = [llm_calls EXCEPT ![p] = llm_calls[p] + 1]
    /\ call_order' = Append(call_order, p)
    /\ UNCHANGED <<profile, resp, exit, pending, writes, last_writer, langVars, promptVars, chatVars, trVars, ad>>

\* generate_response returns one of outs; the task runs up to its return
\* or up to the await of update_one
CompletionReturns(p, outs) ==
    /\ pc[p] = "await_llm"
    /\ \E out \in outs :
         LET r == ProcessOutput(out)
         IN  /\ resp' = [resp EXCEPT ![p] = out]
             /\ exit' = [exit EXCEPT ![p] = r.how]
             /\ pending' = [pending EXCEPT ![p] = r.fields]
             /\ pc' = [pc EXCEPT ![p] = IF r.how = "update_one" THEN "await_update"
                                        ELSE IF r.how = "raised" THEN "raised"
                                        ELSE "returned"]
             /\ writes' = [writes EXCEPT ![p] = IF r.how = "update_one" THEN writes[p] + 1
                                                ELSE writes[p]]
    /\ UNCHANGED <<profile, llm_calls, last_writer, call_order, langVars, promptVars, chatVars, trVars, ad>>

\* the store applies the update and the task returns
UpdateApplied(p) ==
    /\ pc[p] = "await_update"
    /\ profile' = UpdateOneSet(profile, pending[p])
    /\ last_writer' = p
    /\ pc' = [pc EXCEPT ![p] = "returned"]
    /\ exit' = [exit EXCEPT ![p] = "saved"]
    /\ UNCHANGED <<resp, pending, llm_calls, writes, call_order, langVars, promptVars, chatVars, trVars, ad>>

\* update_one raises; `except Exception` logs it and the task returns
UpdateFails(p) ==
    /\ pc[p] = "await_update"
    /\ pc' = [pc EXCEPT ![p] = "returned"]
    /\ exit' = [exit EXCEPT ![p] = "fatal_logged"]
    /\ UNCHANGED <<profile, resp, pending, llm_calls, writes, last_writer, call_order, langVars, promptVars, chatVars, trVars, ad>>

\* the next message of the same user starts a new execution
NextMessage(p) ==
    /\ pc[p] \in {"returned", "raised"}
    /\ pc' = [pc EXCEPT ![p] = "idle"]
    /\ resp' = [resp EXCEPT ![p] = NoOutput]
    /\ exit' = [exit EXCEPT ![p] = "none"]
    /\ pending' = [pending EXCEPT ![p] = EmptyMap]
    /\ llm_calls' = [llm_calls EXCEPT ![p] = 0]
    /\ writes' = [writes EXCEPT ![p] = 0]
    /\ call_order' = SelectSeq(call_order, LAMBDA q : q # p)
    /\ UNCHANGED <<profile, last_writer, langVars, promptVars, chatVars, trVars, ad>>

\* no call of the prompt builder is under way
NoPet == [personality |-> Absent, breed |-> Absent, life_stage_id |-> Absent,
          kb_owner_name |-> Absent]

NoStatus == [kind |-> "none", hibernation_mode |-> Absent, is_sick |-> Absent, vitals |-> ""]

PromptIdle ==
    /\ prompt_in = [file |-> "none", pet |-> NoPet, owner_name |-> "", lines |-> <<>>,
                    pet_status |-> NoStatus, biography_snippet |-> EmptyMap,
                    message |-> NoText]
    /\ prompt_out = [done |-> FALSE, prompt |-> PromptRaised]

\* ------------------------------------------------------ chat request handler
Requests == {1, 2}

PetName == "Rex"

\* the pet record and the status records the pet service returns
ThePet == [personality |-> "Playful", breed |-> "Corgi", life_stage_id |-> "2",
           kb_owner_name |-> Absent]

AwakeStatus == [kind |-> "dict", hibernation_mode |-> "0", is_sick |-> "0",
                vitals |-> "excited"]

\* the message of a request
ChatMessage == Text(<<Run("latin", 3), Run("latin", 3)>>, "none")

\* _fetch_chat_data: the stored profile plus the fields derived from the
\* user record, which are set on the handler's copy only
WithDerivedFields(doc) ==
    [first_name |-> doc.first_name,
     biography |-> MapSet(doc.biography, <<"gender">>, "she/her")]

NoData == [user |-> InitialProfile, pet |-> NoPet, status |-> NoStatus]

\* a text handed to the completion call: the persona of system_prompt or
\* the prompt of build_pet_prompt followed by "<pet name>:"
PersonaText(owner_name) == [kind |-> "persona", owner |-> owner_name, body |-> PromptRaised]
PetPromptText(q) == [kind |-> "pet_prompt", owner |-> "", body |-> q]
NoPromptText == [kind |-> "none", owner |-> "", body |-> PromptRaised]

\* what reaches the backend: the system instruction and the user content
BackendCall(system, user) == [system |-> system, user |-> user]

NotSent == BackendCall(NoPromptText, NoPromptText)

\* chat_handler_test.generate_response(prompt, persona): the prompt is the
\* user content, the persona the system instruction
gemini_generate_response(prompt, persona) == BackendCall(persona, prompt)

\* llm_chat_route._call_ai_service(user_prompt_str, system_prompt_str)
call_ai_service(user_prompt_str, system_prompt_str) ==
    gemini_generate_response(user_prompt_str, system_prompt_str)

\* the history snippet: owner lines carry the owner name, the others the
\* pet name
HistorySnippet(context, owner_name) ==
    [i \in 1..Len(context) |->
        Line(IF context[i].sender = "user" THEN owner_name ELSE PetName, context[i].text)]

\* the text of an answer on the reply path: the echoed "<pet name>:", if
\* any, and the rest
AiText(outcome) ==
    [label |-> IF outcome = "prefixed_text" THEN PetName ELSE "",
     body |-> Text(<<Run("latin", 11)>>, "none")]

\* re.sub(rf"^{pet_name}\s*:\s*", "", text, count=1).strip()
CleanedReply(t) == IF t.label = PetName THEN t.body ELSE TextStrip(t.body)

Turn(sender, text) == [sender |-> sender, text |-> text]

Responded(text) == [kind |-> "response", code |-> "", text |-> text]
Failed(code) == [kind |-> "error", code |-> code, text |-> NoText]
NoReply == [kind |-> "none", code |-> "", text |-> NoText]


\* ----------------------------------------------------- language_translator
ALLOWED_LANGUAGES == {"en", "ko", "ja", "tl"}

\* a text: what it says, the language it is in, whether it came out of
\* the translation backend
TrText(body, lang, translated) == [body |-> body, lang |-> lang, translated |-> translated]

TrEmpty == TrText("", "en", FALSE)
TrKorean == TrText("annyeong", "ko", FALSE)
TrEnglish == TrText("woof", "en", FALSE)

\* translator.translate(text, src, dest).text
Translated(text, dest) == TrText(text.body, dest, TRUE)

\* the translation backend answers or raises
TranslateOutcomes == {"raise", "ok"}

\* detect_language(message) without await: the coroutine, not a code
Coroutine == "<coroutine detect_language>"

\* the three memo tables of alru_cache, none of them ever full here
NoCache == [detect |-> EmptyMap, english |-> EmptyMap, user |-> EmptyMap]

\* how a call ended: a value returned or an exception raised, the memo
\* tables afterwards, and the backend calls made
Ret(value, cache, events) ==
    [raised |-> FALSE, exc |-> "", value |-> value, cache |-> cache, events |-> events]

Raise(exc, cache) ==
    [raised |-> TRUE, exc |-> exc, value |-> TrEmpty, cache |-> cache, events |-> <<>>]

\* language_translator.detect_language
detect_language(text, c) ==
    IF text \in DOMAIN c.detect THEN {Ret(c.detect[text], c, <<>>)}
    ELSE IF text.body = ""
    THEN {Ret("en", [c EXCEPT !.detect = MapSet(c.detect, text, "en")], <<>>)}
    ELSE {LET lang == IF d \in ALLOWED_LANGUAGES THEN d ELSE "en"
          IN  Ret(lang, [c EXCEPT !.detect = MapSet(c.detect, text, lang)],
                  <<Called("detect", d = "raise")>>) : d \in DetectOutcomes}

\* language_translator.translate_to_english
translate_to_english(text, c) ==
    IF text \in DOMAIN c.english THEN {Ret(c.english[text], c, <<>>)}
    ELSE UNION {
        IF text.body = "" \/ r.value = "en"
        THEN {Ret(text, [r.cache EXCEPT !.english = MapSet(r.cache.english, text, text)],
                  r.events)}
        ELSE {LET out == IF t = "raise" THEN text ELSE Translated(text, "en")
              IN  Ret(out, [r.cache EXCEPT !.english = MapSet(r.cache.english, text, out)],
                      Append(r.events, Called("translate", t = "raise"))) :
                 t \in TranslateOutcomes} : r \in detect_language(text, c)}

\* language_translator.translate_to_user_language
translate_to_user_language(text, target_lang, c) ==
    IF <<text, target_lang>> \in DOMAIN c.user THEN {Ret(c.user[<<text, target_lang>>], c, <<>>)}
    ELSE IF text.body = "" \/ target_lang = "en"
    THEN {Ret(text, [c EXCEPT !.user = MapSet(c.user, <<text, target_lang>>, text)], <<>>)}
    ELSE {LET out == IF t = "raise" THEN text ELSE Translated(text, target_lang)
          IN  Ret(out, [c EXCEPT !.user = MapSet(c.user, <<text, target_lang>>, out)],
                  <<Called("translate", t = "raise")>>) : t \in TranslateOutcomes}

\* a call as Python binds it: more positional arguments than parameters
\* raise TypeError before the body of the function is entered
Apply(fn, args, c) ==
    IF fn = "detect_language" /\ Len(args) = 1 THEN detect_language(args[1], c)
    ELSE IF fn = "translate_to_english" /\ Len(args) = 1 THEN translate_to_english(args[1], c)
    ELSE IF fn = "translate_to_user_language" /\ Len(args) = 2
    THEN translate_to_user_language(args[1], args[2], c)
    ELSE {Raise("TypeError", c)}

TrCall(caller, fn, args) == [caller |-> caller, fn |-> fn, args |-> args]

\* no function of language_translator has been called
TrIdle ==
    /\ tr_in = TrCall("none", "none", <<>>)
    /\ tr_out = [done |-> FALSE, raised |-> FALSE, exc |-> "", value |-> TrEmpty,
                 events |-> <<>>]
    /\ tr_cache = NoCache

\* ------------------------------------------- calls of the two adapters
Providers == {"groq", "gemini"}

\* the Gemini client raises with a message
BackendGeminiError(msg) == [kind |-> "gemini_error", none |-> TRUE, text |-> <<>>, msg |-> msg]

\* fastapi.HTTPException(status_code, detail): code is the "code" of a
\* structured detail, "" when the detail is a plain string
HTTPException(status_code, code) == [status_code |-> status_code, code |-> code]

NoException == HTTPException(0, "")

\* what a call of generate_response gives its caller: a value of a Python
\* type ("str" for a JSON text, "dict") holding an envelope, or an
\* exception
Returned(type, env) == [raised |-> FALSE, type |-> type, env |-> env, exc |-> NoException]

Raised(exc) == [raised |-> TRUE, type |-> "none", env |-> NotJson.env, exc |-> exc]

\* chat_handler.generate_response as its caller sees it
GroqResult(b) == Returned("str", generate_response(b).env)

\* chat_handler_test.generate_response as its caller sees it: the dict on
\* success, HTTPException(500, detail=str(e)) on every exception
GeminiResult(b) ==
    IF b.kind = "ok" THEN Returned("dict", Envelope("success", b.none, b.text, ""))
    ELSE Raised(HTTPException(500, ""))

AdapterResult(provider, b) == IF provider = "groq" THEN GroqResult(b) ELSE GeminiResult(b)

NoCall == [pc |-> "idle", invoked |-> 0, b |-> BackendOtherError, out |-> Raised(NoException)]

\* no adapter call is under way
AdIdle == ad = [p \in Providers |-> NoCall]

\* no chat request is under way; the extraction tasks are runnable
ChatIdle ==
    /\ hpc = [r \in Requests |-> "idle"]
    /\ data = [r \in Requests |-> NoData]
    /\ sent = [r \in Requests |-> NotSent]
    /\ reply = [r \in Requests |-> NoReply]
    /\ convo = <<>>
    /\ route = "llm_chat_route"
    /\ ai_calls = [r \in Requests |-> 0]
    /\ ai_out = [r \in Requests |-> Raised(NoException)]

\* Executions of one user's extraction, one after the other
Init == InitTasks /\ LangIdle /\ PromptIdle /\ ChatIdle /\ TrIdle /\ AdIdle

Next ==
    \/ CallCompletion(1)
    \/ CompletionReturns(1, AdapterOutputs)
    \/ UpdateApplied(1)
    \/ UpdateFails(1)
    \/ NextMessage(1)

Spec == Init /\ [][Next]_vars

\* The same executions when generate_response is only known to return a
\* string, which the first json.loads may reject
AnyStringOutputs == AdapterOutputs \cup {NotJson}

NextAnyString ==
    \/ CallCompletion(1)
    \/ CompletionReturns(1, AnyStringOutputs)
    \/ UpdateApplied(1)
    \/ UpdateFails(1)
    \/ NextMessage(1)

SpecAnyString == Init /\ [][NextAnyString]_vars

\* Two executions for the same user, started by two messages, running
\* concurrently: every interleaving of their completion calls and updates
RaceReplies == {<<LB, pr, RB>> : pr \in Pairs} \cup {<<LB, RB>>}

RaceOutputs ==
    {generate_response(b) :
        b \in {BackendOk(FALSE, t) : t \in RaceReplies} \cup {BackendOtherError}}

NextRace ==
    \E p \in Tasks :
        \/ CallCompletion(p)
        \/ CompletionReturns(p, RaceOutputs)
        \/ UpdateApplied(p)
        \/ UpdateFails(p)

SpecRace == Init /\ [][NextRace]_vars

\* Two executions for the same user, one after the other, whose completion
\* calls return the same reply
SecondCallCompletion ==
    /\ pc[1] = "returned"
    /\ CallCompletion(2)

NextTwice ==
    \/ CallCompletion(1)
    \/ CompletionReturns(1, AdapterOutputs)
    \/ UpdateApplied(1)
    \/ UpdateFails(1)
    \/ SecondCallCompletion
    \/ CompletionReturns(2, {resp[1]})
    \/ UpdateApplied(2)
    \/ UpdateFails(2)

SpecTwice == Init /\ [][NextTwice]_vars

\* Executions whose completion call returns an object between prose and
\* code-fence markers, or the same with the two braces exchanged
MaxBodyLen == 2       \* longest object body, in members and whitespace runs

ProseBefore == {<<>>, <<PROSE>>, <<FENCE>>, <<PROSE, FENCE>>, <<PROSE, SP, FENCE, SP>>}

ProseAfter == {<<>>, <<PROSE>>, <<FENCE>>, <<SP, FENCE, SP, PROSE>>}

ObjectBodies == SeqsUpTo(Pairs \cup {SP}, MaxBodyLen)

ScanReplies ==
    {pre \o <<LB>> \o body \o <<RB>> \o post :
        pre \in ProseBefore, body \in ObjectBodies, post \in ProseAfter}
        \cup {pre \o <<RB>> \o body \o <<LB>> \o post :
                 pre \in ProseBefore, body \in ObjectBodies, post \in ProseAfter}

ScanOutputs == {generate_response(BackendOk(FALSE, t)) : t \in ScanReplies}

NextScan ==
    \/ CallCompletion(1)
    \/ CompletionReturns(1, ScanOutputs)
    \/ UpdateApplied(1)
    \/ UpdateFails(1)

SpecScan == Init /\ [][NextScan]_vars

\* Executions whose completion call returns an object with one member
\* whose value is any JSON value, named by its literal: a string, a
\* number, null, a boolean, a list, a nested object
JsonValues == {"v1", "42", "null", "true", "[1, 2]", "{nested}"}

\* the type json.loads gives the value of a literal
JsonTypeOf(v) ==
    IF v = "null" THEN "null"
    ELSE IF v \in {"true", "false"} THEN "boolean"
    ELSE IF v = "[1, 2]" THEN "list"
    ELSE IF v = "{nested}" THEN "object"
    ELSE IF v = "42" THEN "number"
    ELSE "string"

TypedReplies == {<<LB, Tok("pair", k, v), RB>> : k \in {<<"name">>, <<"loc">>}, v \in JsonValues}

TypedOutputs == {generate_response(BackendOk(FALSE, t)) : t \in TypedReplies}

NextTyped ==
    \/ CallCompletion(1)
    \/ CompletionReturns(1, TypedOutputs)
    \/ UpdateApplied(1)
    \/ UpdateFails(1)
    \/ NextMessage(1)

SpecTyped == Init /\ [][NextTyped]_vars

\* ------------------------------------------------ the completion adapters
\* the substrings the Groq adapter looks for in an exception message
Indicators == {"401", "unauthor", "auth", "rate", "429", "503", "unavail", "timeout"}

\* an exception message, as the set of those it contains ("unauthor"
\* contains "auth")
ErrorMessages == {m \in SUBSET Indicators : "unauthor" \in m => "auth" \in m}

\* a short reply text
ShortReply == <<PROSE>>

\* what the backend of a provider may do with one call
BackendOutcomesOf(provider) ==
    IF provider = "groq"
    THEN {BackendOk(FALSE, ShortReply), BackendOk(TRUE, <<>>), BackendOtherError}
            \cup {BackendGroqError(m) : m \in ErrorMessages}
    ELSE {BackendOk(FALSE, ShortReply), BackendOk(TRUE, <<>>)}
            \cup {BackendGeminiError(m) : m \in {{}, {"429"}, {"503", "unavail"}}}

\* generate_response is called and issues its one call of the client
AdapterCalled(p) ==
    /\ ad[p].pc = "idle"
    /\ ad' = [ad EXCEPT ![p] = [@ EXCEPT !.pc = "awaiting", !.invoked = @ + 1]]
    /\ UNCHANGED <<taskVars, langVars, promptVars, chatVars, trVars>>

\* the client answers or raises, and generate_response ends
BackendAnswers(p) ==
    /\ ad[p].pc = "awaiting"
    /\ \E b \in BackendOutcomesOf(p) :
          ad' = [ad EXCEPT ![p] = [pc |-> "done", invoked |-> @.invoked, b |-> b,
                                   out |-> AdapterResult(p, b)]]
    /\ UNCHANGED <<taskVars, langVars, promptVars, chatVars, trVars>>

NextAdapter == \E p \in Providers : AdapterCalled(p) \/ BackendAnswers(p)

SpecAdapter == Init /\ [][NextAdapter]_vars

\* ------------------------------------------- calls of the language detection
MaxLines == 2         \* longest memory snippet, in lines

OwnerNames == {"Sam", "Kim"}

\* texts of the lines of the memory snippet
HistoryTexts ==
    {NoText,
     Text(<<Run("hangul", 3)>>, "none"),
     Text(<<Run("latin", 3)>>, "none"),
     Text(<<Run("latin", 11)>>, "none")}

HistoryLines == {Line(w, t) : w \in {"Sam", PetName}, t \in HistoryTexts}

LangCalls ==
    [file : {"prompt_builder", "prompt_builder_test"},
     message : Texts(MaxRuns),
     owner_name : OwnerNames,
     lines : SeqsUpTo(HistoryLines, MaxLines)]

InitLang ==
    /\ InitTasks
    /\ PromptIdle
    /\ ChatIdle
    /\ TrIdle
    /\ AdIdle
    /\ lang_in \in LangCalls
    /\ lang_out = [done |-> FALSE, lang |-> None, calls |-> <<>>]
    /\ lang_again = [done |-> FALSE, lang |-> None, calls |-> <<>>]

\* one call of prompt_builder._detect_language_from_message
DetectLanguage ==
    /\ lang_in.file = "prompt_builder"
    /\ ~lang_out.done
    /\ \E r \in detect_language_from_message(lang_in.message, lang_in.owner_name, lang_in.lines) :
          lang_out' = [done |-> TRUE, lang |-> r.lang, calls |-> r.calls]
    /\ UNCHANGED <<taskVars, lang_in, lang_again, promptVars, chatVars, trVars, ad>>

\* one call of prompt_builder_test._detect_language_from_message
DetectLanguageTest ==
    /\ lang_in.file = "prompt_builder_test"
    /\ ~lang_out.done
    /\ \E r \in detect_language_from_message_test(lang_in.message, lang_in.owner_name,
                                                  lang_in.lines) :
          lang_out' = [done |-> TRUE, lang |-> r.lang, calls |-> r.calls]
    /\ UNCHANGED <<taskVars, lang_in, lang_again, promptVars, chatVars, trVars, ad>>

NextLang == DetectLanguage \/ DetectLanguageTest

SpecLang == InitLang /\ [][NextLang]_vars

\* a second call of prompt_builder._detect_language_from_message with the
\* arguments of the first; langdetect is not seeded anywhere, so its
\* answers are drawn anew
DetectLanguageAgain ==
    /\ lang_in.file = "prompt_builder"
    /\ lang_out.done
    /\ ~lang_again.done
    /\ \E r \in detect_language_from_message(lang_in.message, lang_in.owner_name, lang_in.lines) :
          lang_again' = [done |-> TRUE, lang |-> r.lang, calls |-> r.calls]
    /\ UNCHANGED <<taskVars, lang_in, lang_out, promptVars, chatVars, trVars, ad>>

\* a second call of prompt_builder_test._detect_language_from_message
DetectLanguageTestAgain ==
    /\ lang_in.file = "prompt_builder_test"
    /\ lang_out.done
    /\ ~lang_again.done
    /\ \E r \in detect_language_from_message_test(lang_in.message, lang_in.owner_name,
                                                  lang_in.lines) :
          lang_again' = [done |-> TRUE, lang |-> r.lang, calls |-> r.calls]
    /\ UNCHANGED <<taskVars, lang_in, lang_out, promptVars, chatVars, trVars, ad>>

NextLangTwice ==
    \/ DetectLanguage
    \/ DetectLanguageTest
    \/ DetectLanguageAgain
    \/ DetectLanguageTestAgain

SpecLangTwice == InitLang /\ [][NextLangTwice]_vars

\* ------------------------------------ detection and translation failures
\* calls of the language detection whose tiers reach the detectors
FailureLangCalls ==
    [file : {"prompt_builder", "prompt_builder_test"},
     message : {Text(<<Run("latin", 3), Run("latin", 3)>>, "none"),
                Text(<<Run("latin", 11), Run("latin", 11)>>, "none")},
     owner_name : {"Sam"},
     lines : {<<>>,
              <<Line("Sam", Text(<<Run("latin", 11), Run("latin", 11)>>, "none"))>>}]

\* calls of the functions of language_translator with the arguments
\* their signatures take
DirectCalls ==
    {TrCall("direct", fn, <<t>>) :
        fn \in {"detect_language", "translate_to_english"}, t \in {TrEmpty, TrKorean}}
        \cup {TrCall("direct", "translate_to_user_language", <<t, l>>) :
                 t \in {TrEmpty, TrEnglish}, l \in {"en", "ko"}}

InitFailures ==
    /\ InitTasks
    /\ PromptIdle
    /\ ChatIdle
    /\ TrIdle
    /\ AdIdle
    /\ lang_in \in FailureLangCalls
    /\ lang_out = [done |-> FALSE, lang |-> None, calls |-> <<>>]
    /\ lang_again = [done |-> FALSE, lang |-> None, calls |-> <<>>]

\* the call ends as r says
TrEnds(call, r) ==
    /\ tr_in' = call
    /\ tr_out' = [done |-> TRUE, raised |-> r.raised, exc |-> r.exc, value |-> r.value,
                  events |-> r.events]
    /\ tr_cache' = r.cache

\* one call of a function of language_translator
CallTranslator ==
    /\ \E call \in DirectCalls :
          \E r \in Apply(call.fn, call.args, tr_cache) : TrEnds(call, r)
    /\ UNCHANGED <<taskVars, langVars, promptVars, chatVars, ad>>

\* llm_chat_route_lstm.chat lines 90-91: detect_language(message) is not
\* awaited, and its coroutine is passed on as a second argument of
\* translate_to_english; what the call raises leaves the handler
LstmLanguageStep ==
    /\ LET call == TrCall("llm_chat_route_lstm", "translate_to_english", <<TrKorean, Coroutine>>)
       IN  \E r \in Apply(call.fn, call.args, tr_cache) : TrEnds(call, r)
    /\ UNCHANGED <<taskVars, langVars, promptVars, chatVars, ad>>

NextFailures ==
    \/ DetectLanguage
    \/ DetectLanguageTest
    \/ CallTranslator
    \/ LstmLanguageStep

SpecFailures == InitFailures /\ [][NextFailures]_vars

\* ------------------------------------------------- calls of the prompt builder
Pets ==
    [personality : {"Playful", Absent},
     breed : {"Corgi", Absent},
     life_stage_id : {"1", "2", "7"},
     kb_owner_name : {Absent, "Kim"}]

\* None, the empty dict, and the status records of the pet service
PetStatuses ==
    {NoStatus, [kind |-> "empty", hibernation_mode |-> Absent, is_sick |-> Absent, vitals |-> ""]}
        \cup [kind : {"dict"}, hibernation_mode : {"0", "1", Absent}, is_sick : {"0", "1"},
              vitals : Moods]

PromptMessages ==
    {Text(<<Run("hangul", 3)>>, "none"),
     Text(<<Run("latin", 3), Run("latin", 1)>>, "none"),
     Text(<<Run("space", 1)>>, "none")}

PromptCalls ==
    [file : {"prompt_builder", "prompt_builder_test"},
     pet : Pets,
     owner_name : {"Sam"},
     lines : {<<>>, <<Line("Sam", Text(<<Run("hangul", 3)>>, "none"))>>},
     pet_status : PetStatuses,
     biography_snippet : {EmptyMap, [k \in {<<"age">>, <<"name">>} |-> "v1"]},
     message : PromptMessages]

InitPrompt ==
    /\ InitTasks
    /\ LangIdle
    /\ ChatIdle
    /\ TrIdle
    /\ AdIdle
    /\ prompt_in \in PromptCalls
    /\ prompt_out = [done |-> FALSE, prompt |-> PromptRaised]

\* one call of prompt_builder.build_pet_prompt
BuildPetPrompt ==
    /\ prompt_in.file = "prompt_builder"
    /\ ~prompt_out.done
    /\ \E q \in build_pet_prompt(prompt_in.pet, prompt_in.owner_name, prompt_in.lines,
                                 prompt_in.pet_status, prompt_in.biography_snippet,
                                 prompt_in.message) :
          prompt_out' = [done |-> TRUE, prompt |-> q]
    /\ UNCHANGED <<taskVars, langVars, prompt_in, chatVars, trVars, ad>>

\* one call of prompt_builder_test.build_pet_prompt
BuildPetPromptTest ==
    /\ prompt_in.file = "prompt_builder_test"
    /\ ~prompt_out.done
    /\ \E q \in build_pet_prompt_test(prompt_in.pet, prompt_in.owner_name, prompt_in.lines,
                                      prompt_in.pet_status, prompt_in.biography_snippet,
                                      prompt_in.message) :
          prompt_out' = [done |-> TRUE, prompt |-> q]
    /\ UNCHANGED <<taskVars, langVars, prompt_in, chatVars, trVars, ad>>

NextPrompt == BuildPetPrompt \/ BuildPetPromptTest

SpecPrompt == InitPrompt /\ [][NextPrompt]_vars

\* --------------------------------------------------------- the chat route
\* what _fetch_chat_data may end with
FetchFailures == {"USER_NOT_FOUND", "PROFILE_ERROR", "PET_NOT_FOUND", "DATA_FETCH_ERROR"}

ChatTaskOutputs ==
    {generate_response(b) :
        b \in {BackendOk(FALSE, <<LB, Tok("pair", <<"name">>, "v1"), RB>>),
               BackendOk(FALSE, <<LB, Tok("pair", <<"loc">>, "v2"), RB>>),
               BackendOtherError}}

\* the two route modules and the adapter each imports (line 10 of each)
Routes == {"llm_chat_route", "llm_chat_route_testing"}

ProviderOf(rt) == IF rt = "llm_chat_route" THEN "gemini" ELSE "groq"

\* llm_chat_route_testing: _fetch_chat_data raises ValueError, the handler
\* answers 404 with the message as a plain detail
FetchFailuresOf(rt) == IF rt = "llm_chat_route" THEN FetchFailures ELSE {""}

\* chat_handler.generate_response(system_prompt, prompt)
groq_generate_response(system_prompt, prompt) == BackendCall(system_prompt, prompt)

\* llm_chat_route_testing._call_ai_service(system_prompt_str, user_prompt_str)
call_ai_service_testing(system_prompt_str, user_prompt_str) ==
    groq_generate_response(system_prompt_str, user_prompt_str)

\* both handlers: await _call_ai_service(build_system_prompt, prompt)
SentBy(rt, build_system_prompt, prompt) ==
    IF rt = "llm_chat_route" THEN call_ai_service(build_system_prompt, prompt)
    ELSE call_ai_service_testing(build_system_prompt, prompt)

\* what the backend may do on the reply path: answer with a text (with or
\* without the echoed "<pet name>:" in front) or with none, or raise
ReplyBackendOutcomes(provider) ==
    {BackendOk(FALSE, AiText("text")), BackendOk(FALSE, AiText("prefixed_text")),
     BackendOk(TRUE, <<>>)}
        \cup (IF provider = "groq"
              THEN {BackendOtherError}
                      \cup {BackendGroqError(m) : m \in {{}, {"401"}, {"429", "rate"}, {"503"}}}
              ELSE {BackendGeminiError(m) : m \in {{}, {"429"}}})

\* how _call_ai_service ends: with the reply text or an HTTPException
AiServiceText(text) == [raised |-> FALSE, exc |-> NoException, text |-> text]
AiServiceRaised(exc) == [raised |-> TRUE, exc |-> exc, text |-> AiText("text")]

\* llm_chat_route._call_ai_service after generate_response: an exception
\* of the adapter passes through; the dict is checked for its status and
\* its text
AiServiceMain(res) ==
    IF res.raised THEN AiServiceRaised(res.exc)
    ELSE IF res.env.status # "success" THEN AiServiceRaised(HTTPException(502, "AI_SERVICE_ERROR"))
    ELSE IF res.env.none THEN AiServiceRaised(HTTPException(502, "AI_INCOMPLETE_RESPONSE"))
    ELSE AiServiceText(res.env.text)

\* llm_chat_route_testing._call_ai_service after generate_response: the
\* JSON text is loaded; an error envelope and a missing text both end in
\* HTTPException(502) with a plain string as detail
AiServiceTesting(res) ==
    IF res.raised THEN AiServiceRaised(res.exc)
    ELSE IF res.env.status = "error" THEN AiServiceRaised(HTTPException(502, ""))
    ELSE IF res.env.none THEN AiServiceRaised(HTTPException(502, ""))
    ELSE AiServiceText(res.env.text)

AiService(rt, res) ==
    IF rt = "llm_chat_route" THEN AiServiceMain(res) ELSE AiServiceTesting(res)

InitChat ==
    /\ profile = InitialProfile
    /\ pc = [p \in Tasks |-> "unregistered"]
    /\ resp = [p \in Tasks |-> NoOutput]
    /\ exit = [p \in Tasks |-> "none"]
    /\ pending = [p \in Tasks |-> EmptyMap]
    /\ llm_calls = [p \in Tasks |-> 0]
    /\ writes = [p \in Tasks |-> 0]
    /\ last_writer = 0
    /\ call_order = <<>>
    /\ LangIdle
    /\ PromptIdle
    /\ hpc = [r \in Requests |-> "received"]
    /\ data = [r \in Requests |-> NoData]
    /\ sent = [r \in Requests |-> NotSent]
    /\ reply = [r \in Requests |-> NoReply]
    /\ convo = <<>>
    /\ route \in Routes
    /\ ai_calls = [r \in Requests |-> 0]
    /\ ai_out = [r \in Requests |-> Raised(NoException)]
    /\ TrIdle
    /\ AdIdle

\* _fetch_chat_data fails: the handler raises before anything else
FetchFails(r) ==
    /\ hpc[r] = "received"
    /\ \E code \in FetchFailuresOf(route) :
          reply' = [reply EXCEPT ![r] = Failed(code)]
    /\ hpc' = [hpc EXCEPT ![r] = "failed"]
    /\ UNCHANGED <<taskVars, langVars, promptVars, data, sent, convo, route, ai_calls, ai_out, trVars, ad>>

\* _fetch_chat_data succeeds: the user, the stored profile and the pet are
\* there; the pet status may be missing
FetchSucceeds(r) ==
    /\ hpc[r] = "received"
    /\ \E st \in {AwakeStatus, NoStatus} :
          data' = [data EXCEPT ![r] = [user |-> WithDerivedFields(profile),
                                       pet |-> ThePet, status |-> st]]
    /\ hpc' = [hpc EXCEPT ![r] = "fetched"]
    /\ UNCHANGED <<taskVars, langVars, promptVars, sent, reply, convo, route, ai_calls, ai_out, trVars, ad>>

\* background_tasks.add_task(extract_and_save_user_facts, ...), then the
\* handler awaits save_message_and_get_context for the user turn
AddTask(r) ==
    /\ hpc[r] = "fetched"
    /\ pc' = [pc EXCEPT ![r] = "idle"]
    /\ hpc' = [hpc EXCEPT ![r] = "saving_user"]
    /\ UNCHANGED <<profile, resp, exit, pending, llm_calls, writes, last_writer, call_order,
                   langVars, promptVars, data, sent, reply, convo, route, ai_calls, ai_out, trVars, ad>>

\* variant: the prompt is built from the stored profile at that moment
\* instead of the handler's copy
ChatPromptsFromStore(user_profile, pet_status, context) ==
    build_pet_prompt(ThePet, profile.first_name,
                     HistorySnippet(context, profile.first_name),
                     pet_status, WithDerivedFields(profile).biography, ChatMessage)

\* the prompts the handler builds, from its own locals
ChatPrompts(user_profile, pet_status, context) ==
    build_pet_prompt(ThePet, user_profile.first_name,
                     HistorySnippet(context, user_profile.first_name),
                     pet_status, user_profile.biography, ChatMessage)

\* the save of the user turn raises: nothing catches it in the handler
SaveUserTurnFails(r) ==
    /\ hpc[r] = "saving_user"
    /\ hpc' = [hpc EXCEPT ![r] = "failed"]
    /\ reply' = [reply EXCEPT ![r] = Failed("INTERNAL_SERVER_ERROR")]
    /\ UNCHANGED <<taskVars, langVars, promptVars, data, sent, convo, route, ai_calls, ai_out, trVars, ad>>

\* the user turn is stored and the context comes back; the handler builds
\* the prompts and awaits the completion call, or build_pet_prompt raises
SaveUserTurn(r) ==
    /\ hpc[r] = "saving_user"
    /\ convo' = Append(convo, Turn("user", ChatMessage))
    /\ \E q \in ChatPrompts(data[r].user, data[r].status, convo') :
          IF q.raised
          THEN /\ hpc' = [hpc EXCEPT ![r] = "failed"]
               /\ reply' = [reply EXCEPT ![r] = Failed("INTERNAL_SERVER_ERROR")]
               /\ UNCHANGED <<sent, ai_calls>>
          ELSE /\ hpc' = [hpc EXCEPT ![r] = "await_ai"]
               /\ reply' = reply
               /\ sent' = [sent EXCEPT ![r] =
                              SentBy(route, PersonaText(data[r].user.first_name),
                                     PetPromptText(q))]
               /\ ai_calls' = [ai_calls EXCEPT ![r] = @ + 1]
    /\ UNCHANGED <<taskVars, langVars, promptVars, data, route, ai_out, trVars, ad>>

\* variant: a failed completion call is answered with an empty agent turn
AiReturnsStoringFailures(r) ==
    /\ hpc[r] = "await_ai"
    /\ \E b \in ReplyBackendOutcomes(ProviderOf(route)) :
          LET res == AdapterResult(ProviderOf(route), b)
              out == AiService(route, res)
          IN  /\ ai_out' = [ai_out EXCEPT ![r] = res]
              /\ ai_calls' = ai_calls
              /\ hpc' = [hpc EXCEPT ![r] = "saving_ai"]
              /\ reply' = [reply EXCEPT ![r] =
                              IF out.raised THEN Responded(NoText)
                              ELSE Responded(CleanedReply(out.text))]
    /\ UNCHANGED <<taskVars, langVars, promptVars, data, sent, convo, route, trVars, ad>>

\* variant: a call of the backend that raised is issued once more
AiReturnsWithRetry(r) ==
    /\ hpc[r] = "await_ai"
    /\ \E b \in ReplyBackendOutcomes(ProviderOf(route)) :
          LET res == AdapterResult(ProviderOf(route), b)
              out == AiService(route, res)
          IN  IF b.kind # "ok" /\ ai_calls[r] < 2
              THEN /\ ai_calls' = [ai_calls EXCEPT ![r] = @ + 1]
                   /\ UNCHANGED <<hpc, reply, ai_out>>
              ELSE /\ ai_out' = [ai_out EXCEPT ![r] = res]
                   /\ ai_calls' = ai_calls
                   /\ IF out.raised
                      THEN /\ hpc' = [hpc EXCEPT ![r] = "failed"]
                           /\ reply' = [reply EXCEPT ![r] = Failed(out.exc.code)]
                      ELSE /\ hpc' = [hpc EXCEPT ![r] = "saving_ai"]
                           /\ reply' = [reply EXCEPT ![r] = Responded(CleanedReply(out.text))]
    /\ UNCHANGED <<taskVars, langVars, promptVars, data, sent, convo, route, trVars, ad>>

\* the backend answers or raises, generate_response and _call_ai_service
\* end: an HTTPException leaves the handler, a text is cleaned and the
\* handler awaits the save of the agent turn
AiReturns(r) ==
    /\ hpc[r] = "await_ai"
    /\ \E b \in ReplyBackendOutcomes(ProviderOf(route)) :
          LET res == AdapterResult(ProviderOf(route), b)
              out == AiService(route, res)
          IN  /\ ai_out' = [ai_out EXCEPT ![r] = res]
              /\ ai_calls' = ai_calls
              /\ IF out.raised
                 THEN /\ hpc' = [hpc EXCEPT ![r] = "failed"]
                      /\ reply' = [reply EXCEPT ![r] = Failed(out.exc.code)]
                 ELSE /\ hpc' = [hpc EXCEPT ![r] = "saving_ai"]
                      /\ reply' = [reply EXCEPT ![r] = Responded(CleanedReply(out.text))]
    /\ UNCHANGED <<taskVars, langVars, promptVars, data, sent, convo, route, trVars, ad>>

\* the agent turn is stored and the handler returns the response
SaveAiTurn(r) ==
    /\ hpc[r] = "saving_ai"
    /\ convo' = Append(convo, Turn("ai", reply[r].text))
    /\ hpc' = [hpc EXCEPT ![r] = "responded"]
    /\ UNCHANGED <<taskVars, langVars, promptVars, data, sent, reply, route, ai_calls, ai_out, trVars, ad>>

\* the save of the agent turn raises: the request fails although the
\* backend answered
SaveAiTurnFails(r) ==
    /\ hpc[r] = "saving_ai"
    /\ hpc' = [hpc EXCEPT ![r] = "failed"]
    /\ reply' = [reply EXCEPT ![r] = Failed("INTERNAL_SERVER_ERROR")]
    /\ UNCHANGED <<taskVars, langVars, promptVars, data, sent, convo, route, ai_calls, ai_out, trVars, ad>>

\* the registered extraction runs once the handler is through
RunTask(r) ==
    /\ hpc[r] \in {"responded", "failed"}
    /\ CallCompletion(r)

NextChat ==
    \E r \in Requests :
        \/ FetchFails(r)
        \/ FetchSucceeds(r)
        \/ AddTask(r)
        \/ SaveUserTurnFails(r)
        \/ SaveUserTurn(r)
        \/ AiReturns(r)
        \/ SaveAiTurnFails(r)
        \/ SaveAiTurn(r)
        \/ RunTask(r)
        \/ CompletionReturns(r, ChatTaskOutputs)
        \/ UpdateApplied(r)
        \/ UpdateFails(r)

SpecChat == InitChat /\ [][NextChat]_vars

\* ======================================================================
\* Properties of the fact-extraction pipeline
\* ======================================================================
\* the member tokens of a reply and the facts they carry after sanitization
MembersOf(out) == {tk \in Range(out.env.text) : tk.t = "pair"}

SanitizedKeys(out) == {StripKey(tk.k) : tk \in MembersOf(out)} \ {<<>>}

FactsOf(out) ==
    {[key |-> StripKey(tk.k), v |-> tk.v] : tk \in {m \in MembersOf(out) : StripKey(m.k) # <<>>}}

\* task p's update is being applied in this step
Applying(p) == pc[p] = "await_update" /\ exit'[p] = "saved"

\* C1: a merge never removes a biography key, and a key that is not in the
\* (sanitized) extracted set keeps the value it had before the merge; any
\* step that is not a merge leaves the biography alone.
C1_MergeKeepsKeys ==
    [][\A k \in DOMAIN profile.biography :
          /\ k \in DOMAIN profile'.biography
          /\ (\A p \in Tasks : Applying(p) => k \notin SanitizedKeys(resp[p]))
                => profile'.biography[k] = profile.biography[k]]_vars

\* a merge of loc has been applied to a biography that already held a name
\* fact from an earlier merge
C1_Witness ==
    /\ exit[1] = "saved"
    /\ SanitizedKeys(resp[1]) = {<<"loc">>}
    /\ <<"name">> \in DOMAIN profile.biography
    /\ <<"hobby">> \in DOMAIN profile.biography

\* the condition under which the claim allows a storage write, stated on
\* the reply text: first '{' before last '}', only members (and whitespace)
\* in between, at least one member, at least one key that is not blank
WriteAllowed(out) ==
    /\ out.json
    /\ out.env.status = "success"
    /\ ~out.env.none
    /\ out.env.text # <<>>
    /\ LET t == out.env.text
           lbs == {i \in 1..Len(t) : t[i] = LB}
           rbs == {i \in 1..Len(t) : t[i] = RB}
       IN  /\ lbs # {}
           /\ rbs # {}
           /\ \E i \in lbs, j \in rbs :
                /\ \A x \in lbs : i <= x
                /\ \A x \in rbs : x <= j
                /\ i < j
                /\ \A m \in (i + 1)..(j - 1) : t[m] = SP \/ t[m].t = "pair"
                /\ \E m \in (i + 1)..(j - 1) : t[m].t = "pair"
                /\ \E m \in (i + 1)..(j - 1) :
                     t[m].t = "pair" /\ \E c \in Range(t[m].k) : c # WS

Received(p) == pc[p] \in {"await_update", "returned", "raised"}

\* C2: a storage write is issued only if the envelope is a success with a
\* non-empty reply whose first-'{'-to-last-'}' text parses to a non-empty
\* object with a key that survives sanitization; in every other outcome the
\* execution returns normally with no write and a single completion call.
C2_WriteOnlyForValidFacts ==
    \A p \in Tasks :
        Received(p) =>
            /\ writes[p] > 0 => WriteAllowed(resp[p])
            /\ ~WriteAllowed(resp[p]) =>
                 /\ pc[p] = "returned"
                 /\ writes[p] = 0
                 /\ llm_calls[p] = 1

\* an object with one blank key and one valid key has been written
C2_Witness ==
    /\ exit[1] = "saved"
    /\ writes[1] = 1
    /\ \E tk \in MembersOf(resp[1]) : StripKey(tk.k) = <<>>
    /\ SanitizedKeys(resp[1]) # {}

BothSaved == exit[1] = "saved" /\ exit[2] = "saved"

KeysOf(p) == {f.key : f \in FactsOf(resp[p])}

ValueOf(p, k) == (CHOOSE f \in FactsOf(resp[p]) : f.key = k).v

\* C4: after two concurrent executions that wrote disjoint key sets, the
\* biography holds the facts of both and every key it had before.
C4_DisjointWritesBothKept ==
    (BothSaved /\ KeysOf(1) \cap KeysOf(2) = {}) =>
        /\ \A p \in Tasks : \A k \in KeysOf(p) :
              k \in DOMAIN profile.biography /\ profile.biography[k] = ValueOf(p, k)
        /\ \A k \in DOMAIN InitialProfile.biography :
              k \in DOMAIN profile.biography
              /\ profile.biography[k] = InitialProfile.biography[k]

\* the two executions overlapped (1 called first, 2 wrote first) and wrote
\* different keys
C4_Witness ==
    /\ BothSaved
    /\ KeysOf(1) # {} /\ KeysOf(2) # {}
    /\ KeysOf(1) \cap KeysOf(2) = {}
    /\ call_order = <<1, 2>>
    /\ last_writer = 1

\* C5: after two concurrent executions that wrote the same key, the key
\* holds the value of the update applied last, one of the two values.
C5_LastWriteWins ==
    BothSaved =>
        \A k \in KeysOf(1) \cap KeysOf(2) :
            /\ profile.biography[k] = ValueOf(last_writer, k)
            /\ profile.biography[k] \in {ValueOf(1, k), ValueOf(2, k)}

\* the execution that started first wrote the same key last, with another
\* value, and its value is the one stored
C5_Witness ==
    /\ BothSaved
    /\ call_order = <<1, 2>>
    /\ last_writer = 1
    /\ \E k \in KeysOf(1) \cap KeysOf(2) :
          /\ ValueOf(1, k) # ValueOf(2, k)
          /\ profile.biography[k] = ValueOf(1, k)

\* ======================================================================
\* Properties of the prompt builder
\* ======================================================================
\* the call was given a pet status (a non-empty record)
StatusSupplied == prompt_in.pet_status.kind = "dict"

BuiltDirective == prompt_out.prompt.directive

\* C7: with hibernation_mode "1" rule 1 is the hibernation override and
\* is not the behaviour modifier of any mood.
C7_HibernationOverridesMood ==
    (prompt_out.done /\ StatusSupplied /\ prompt_in.pet_status.hibernation_mode = "1") =>
        /\ ~prompt_out.prompt.raised
        /\ BuiltDirective # <<>>
        /\ BuiltDirective[1].kind = "primary"
        /\ BuiltDirective[1].text = HibernationDirective
        /\ BuiltDirective[1].text \notin {BehaviorSummary(m).modifier : m \in Moods}

\* a hibernating pet whose vitals give the mood "excited"
C7_Witness ==
    /\ prompt_out.done
    /\ prompt_in.file = "prompt_builder"
    /\ prompt_in.pet_status.hibernation_mode = "1"
    /\ prompt_in.pet_status.vitals = "excited"
    /\ prompt_out.prompt.status.mood = "excited"
    /\ BuiltDirective[1].text = HibernationDirective

\* C8: every call returns a prompt whose directive block ends with the
\* context-respect rule, also when no pet status is supplied.
C8_ContextRuleAlwaysLast ==
    prompt_out.done =>
        /\ ~prompt_out.prompt.raised
        /\ BuiltDirective # <<>>
        /\ BuiltDirective[Len(BuiltDirective)].kind = "context"

\* the prompts the same call would produce with another hibernation flag
WithHibernation(h) ==
    LET st == [prompt_in.pet_status EXCEPT !.hibernation_mode = h]
    IN  IF prompt_in.file = "prompt_builder"
        THEN build_pet_prompt(prompt_in.pet, prompt_in.owner_name, prompt_in.lines, st,
                              prompt_in.biography_snippet, prompt_in.message)
        ELSE build_pet_prompt_test(prompt_in.pet, prompt_in.owner_name, prompt_in.lines, st,
                                   prompt_in.biography_snippet, prompt_in.message)

\* C9: with a pet status the directive block is the five rules primary,
\* personality, breed, lifestage, context in this order, and rules 2 to 5
\* are the same with and without the hibernation override.
C9_FiveRulesFixedOrder ==
    (prompt_out.done /\ StatusSupplied) =>
        /\ ~prompt_out.prompt.raised
        /\ Len(BuiltDirective) = 5
        /\ [i \in 1..5 |-> BuiltDirective[i].kind]
              = <<"primary", "personality", "breed", "lifestage", "context">>
        /\ [i \in 1..5 |-> BuiltDirective[i].n] = <<1, 2, 3, 4, 5>>
        /\ \A h \in {"0", "1", Absent} : \A q \in WithHibernation(h) :
              /\ Len(q.directive) = 5
              /\ SubSeq(q.directive, 2, 5) = SubSeq(BuiltDirective, 2, 5)

\* a prompt built under the override, compared with the prompt built
\* without it
C9_Witness ==
    /\ prompt_out.done
    /\ StatusSupplied
    /\ prompt_in.pet_status.hibernation_mode = "1"
    /\ Len(BuiltDirective) = 5
    /\ \E q \in WithHibernation("0") : q.directive[1] # BuiltDirective[1]

\* ======================================================================
\* Properties of the language detection
\* ======================================================================
OnlyClasses(t, classes) ==
    /\ t.runs # <<>>
    /\ \A i \in 1..Len(t.runs) : t.runs[i].cls \in classes

\* C10: a message of Hangul syllables only yields ko, a message of
\* Hiragana, Katakana or CJK ideographs only yields ja, at every length,
\* and no detector is called.
C10_ScriptDecidesFirst ==
    lang_out.done =>
        /\ OnlyClasses(lang_in.message, {"hangul"})
              => lang_out.lang = "ko" /\ lang_out.calls = <<>>
        /\ OnlyClasses(lang_in.message, {"hiragana", "katakana", "cjk"})
              => lang_out.lang = "ja" /\ lang_out.calls = <<>>

\* a single Hangul syllable, shorter than the short-message threshold
C10_Witness ==
    /\ lang_out.done
    /\ lang_in.file = "prompt_builder"
    /\ OnlyClasses(lang_in.message, {"hangul"})
    /\ TextLen(lang_in.message) < 4
    /\ lang_out.lang = "ko"

\* ======================================================================
\* Properties of the chat request handler

\* the extraction task of request r has been handed to the framework
Registered(r) == pc[r] # "unregistered"

\* the extraction task of request r has begun to run
Started(r) == pc[r] \notin {"unregistered", "idle"} \/ llm_calls[r] > 0

\* _fetch_chat_data gave request r its user, profile and pet records
FetchedAll(r) ==
    /\ hpc[r] \notin {"received"}
    /\ reply[r].code \notin FetchFailures
    /\ data[r].pet = ThePet
    /\ <<"gender">> \in DOMAIN data[r].user.biography

\* what request r handed to the backend was built from its own copy of
\* the records
SentFromOwnCopy(r) ==
    hpc[r] \in {"await_ai", "saving_ai", "responded"} =>
        LET texts == {sent[r].system, sent[r].user}
            prompt == CHOOSE t \in texts : t.kind = "pet_prompt"
        IN  /\ PersonaText(data[r].user.first_name) \in texts
            /\ \E t \in texts : t.kind = "pet_prompt"
            /\ prompt.body.owner = data[r].user.first_name
            /\ prompt.body.knowledge = data[r].user.biography

\* a step of the handler of request r
HandlerStep(r) == hpc'[r] # hpc[r]

\* a step of the extraction task of request r
ExtractionStep(r) == Registered(r) /\ pc'[r] # pc[r]

\* C6: in the chat request handler the extraction is registered only after
\* the user, profile and pet records were fetched successfully, and the
\* reply path neither waits for nor reads the extraction: every handler
\* step is taken while the request's extraction has not begun, what is
\* handed to the backend comes from the handler's own copy of the records,
\* and no step of an extraction changes any request's reply, prompt or
\* position.
C6_ExtractionOffReplyPath ==
    /\ [](\A r \in Requests : Registered(r) => FetchedAll(r))
    /\ [](\A r \in Requests : SentFromOwnCopy(r))
    /\ [][\A r \in Requests :
            /\ HandlerStep(r) => ~Started(r) /\ ~Started(r)'
            /\ ExtractionStep(r) => UNCHANGED chatVars]_vars

\* a request got its reply from its own copy of the profile although an
\* extraction has changed the stored profile since, and its own
\* extraction then ran and saved
C6_Witness ==
    \E r \in Requests :
        /\ hpc[r] = "responded"
        /\ reply[r].kind = "response"
        /\ exit[r] = "saved"
        /\ data[r].user.first_name # profile.first_name
        /\ sent[r].system.body.owner = data[r].user.first_name

\* ======================================================================
\* Properties of the language detection: thresholds, results, history
\* ======================================================================
\* the stripped message of the call
Msg == TextStrip(lang_in.message)

\* the short-message threshold of the file the call is made in
ShortThreshold == IF lang_in.file = "prompt_builder" THEN 4 ELSE 5

\* the message has a character of one of the script ranges
HasScript(t) ==
    \E i \in 1..Len(t.runs) : t.runs[i].cls \in {"hangul", "hiragana", "katakana", "cjk"}

\* C11 as stated: every message whose trimmed length is below the
\* short-message threshold (4 in prompt_builder.py, 5 in
\* prompt_builder_test.py) yields en.
C11_ShortIsDefault ==
    lang_out.done /\ TextLen(Msg) < ShortThreshold => lang_out.lang = SAFE_DEFAULT

\* C11, amended: every message whose trimmed text is non-empty, has no
\* Hangul, Hiragana, Katakana or CJK character and is shorter than the
\* short-message threshold of the file yields en, and no detector is
\* called.
C11_ShortWithoutScriptIsDefault ==
    lang_out.done /\ Msg.runs # <<>> /\ ~HasScript(Msg) /\ TextLen(Msg) < ShortThreshold
        => lang_out.lang = SAFE_DEFAULT /\ lang_out.calls = <<>>

\* a four-letter message in prompt_builder_test.py, with a Hangul line of
\* the owner in the memory snippet
C11_Witness ==
    /\ lang_out.done
    /\ lang_in.file = "prompt_builder_test"
    /\ ~HasScript(Msg)
    /\ TextLen(Msg) = 4
    /\ \E i \in 1..Len(lang_in.lines) :
          lang_in.lines[i] = Line(lang_in.owner_name, Text(<<Run("hangul", 3)>>, "none"))
    /\ lang_out.lang = SAFE_DEFAULT

\* C12: two evaluations of _detect_language_from_message with identical
\* message, owner name and memory snippet return the same language code,
\* in every tier.
C12_SameInputsSameCode ==
    lang_out.done /\ lang_again.done => lang_again.lang = lang_out.lang

\* C13: every value _detect_language_from_message returns is one of en,
\* ko, ja, whatever the message, the owner name, the memory snippet and
\* the codes and confidences the detectors report.
C13_ResultSupported ==
    lang_out.done => lang_out.lang \in SUPPORTED_LANGUAGE_CODES

\* both detectors were asked about the current message and the most
\* recent owner line, none of their answers was accepted, and the call
\* ended with the default
C13_Witness ==
    /\ lang_out.done
    /\ lang_in.file = "prompt_builder"
    /\ lang_out.calls = <<"detect_langs", "detect", "detect">>
    /\ lang_out.lang = SAFE_DEFAULT

\* every result the function of the file can return for the arguments
ResultsOf(file, message, owner_name, lines) ==
    IF file = "prompt_builder"
    THEN detect_language_from_message(message, owner_name, lines)
    ELSE detect_language_from_message_test(message, owner_name, lines)

\* the memory snippet from its most recent line of the owner on; the
\* whole snippet if the owner has no line
FromMostRecentOwnerLine(lines, owner_name) ==
    LET own == {i \in 1..Len(lines) : lines[i].who = owner_name}
    IN  IF own = {} THEN lines
        ELSE SubSeq(lines, CHOOSE i \in own : \A j \in own : j <= i, Len(lines))

\* C14: in the history fallback only the most recent line of the owner is
\* examined, also when it carries no text: the language returned is one
\* the call returns when every line older than that line is removed from
\* the memory snippet.
C14_OlderOwnerLinesIgnored ==
    lang_out.done =>
        lang_out.lang \in
            {r.lang : r \in ResultsOf(lang_in.file, lang_in.message, lang_in.owner_name,
                                      FromMostRecentOwnerLine(lang_in.lines, lang_in.owner_name))}

\* ======================================================================
\* Properties of detection and translation failures
\* ======================================================================
\* every backend call of the sequence raised, and there was one
AllRaised(calls) ==
    /\ calls # <<>>
    /\ \A i \in 1..Len(calls) : calls[i] \in {"detect_langs:raised", "detect:raised"}

\* _detect_language_from_message returned a code, and en when every
\* detector it asked raised and no line of the snippet has script
DetectionDegrades ==
    lang_out.done =>
        /\ lang_out.lang \in SUPPORTED_LANGUAGE_CODES
        /\ AllRaised(lang_out.calls)
             /\ (\A i \in 1..Len(lang_in.lines) : ~HasScript(lang_in.lines[i].text))
              => lang_out.lang = SAFE_DEFAULT

\* a call of a function of language_translator raised nothing;
\* detect_language returned an allowed code, en if the detector raised;
\* the translations returned their input if the backend raised
TranslatorDegrades ==
    tr_out.done =>
        /\ ~tr_out.raised
        /\ tr_in.fn = "detect_language" =>
              /\ tr_out.value \in ALLOWED_LANGUAGES
              /\ "detect:raised" \in Range(tr_out.events) => tr_out.value = "en"
        /\ tr_in.fn # "detect_language" /\ "translate:raised" \in Range(tr_out.events)
              => tr_out.value = tr_in.args[1]

\* C15: failures of language identification and translation are never
\* propagated: when a detector or the translation backend raises,
\* _detect_language_from_message and detect_language still return a code
\* (en when nothing else is conclusive), and translate_to_english and
\* translate_to_user_language return their input text, and no call of them
\* raises to its caller.
C15_FailuresNeverPropagate == DetectionDegrades /\ TranslatorDegrades

\* ======================================================================
\* Properties of the completion adapters
\* ======================================================================
ErrorTaxonomy == {"AI_AUTH_ERROR", "AI_RATE_LIMIT", "AI_UNAVAILABLE", "AI_SERVICE_ERROR"}

Done(p) == ad[p].pc = "done"

\* the call of provider p ended with the normalized envelope
NormalizedEnvelope(p) ==
    /\ ~ad[p].out.raised
    /\ \/ ad[p].out.env.status = "success" /\ ad[p].b.kind = "ok"
       \/ ad[p].out.env.status = "error" /\ ad[p].out.env.code \in ErrorTaxonomy

\* C16: every outcome of a completion call, of the Groq adapter and of the
\* Gemini adapter, comes back as the normalized envelope, a success or an
\* error with a code of the taxonomy; no backend failure is raised to the
\* caller; and both adapters return the envelope in the same shape.
C16_EnvelopeFromBothProviders ==
    /\ \A p \in Providers : Done(p) => NormalizedEnvelope(p)
    /\ (\A p \in Providers : Done(p) /\ ~ad[p].out.raised)
          => ad["groq"].out.type = ad["gemini"].out.type

\* the Groq client raised a GroqError whose message has a rate-limit
\* indicator
RateLimitFailure ==
    /\ Done("groq")
    /\ ad["groq"].b.kind = "groq_error"
    /\ ad["groq"].b.msg \cap {"rate", "429"} # {}

\* C17: whenever the completion backend fails with a message that contains
\* 'rate' or '429', the envelope of generate_response carries the code
\* AI_RATE_LIMIT, whatever else the message contains.
C17_RateLimitIndicatorWins ==
    RateLimitFailure => ad["groq"].out.env.code = "AI_RATE_LIMIT"

\* ======================================================================
\* Properties of the completion call on the reply path

\* the kinds of failure the adapter tells apart
ClassifiedKinds == {"AI_AUTH_ERROR", "AI_RATE_LIMIT", "AI_UNAVAILABLE"}

\* generate_response gave request r an error envelope of a classified kind
ClassifiedFailure(r) ==
    /\ ~ai_out[r].raised
    /\ ai_out[r].env.status = "error"
    /\ ai_out[r].env.code \in ClassifiedKinds

\* generate_response gave request r a success envelope without a text
SuccessWithoutText(r) ==
    /\ ~ai_out[r].raised
    /\ ai_out[r].env.status = "success"
    /\ ai_out[r].env.none

\* C18: a failure of the completion call on the reply path reaches the
\* HTTP caller as a structured failure of the kind the adapter classified
\* it as (AI_AUTH_ERROR, AI_RATE_LIMIT, AI_UNAVAILABLE), and a success
\* envelope without a reply text reaches the caller as
\* AI_INCOMPLETE_RESPONSE.
C18_FailureKindReachesCaller ==
    \A r \in Requests :
        /\ ClassifiedFailure(r) => reply[r].code = ai_out[r].env.code
        /\ SuccessWithoutText(r) => reply[r].code = "AI_INCOMPLETE_RESPONSE"

\* the handler of request r has called generate_response
ReplyCallMade(r) == sent[r] # NotSent

\* the generate_response call of request r's reply path has ended
ReplyCallEnded(r) == ai_out[r] # Raised(NoException)

\* the generate_response call of request r's extraction has ended
ExtractionCallEnded(r) == pc[r] \in {"await_update", "returned", "raised"}

\* C19: a call of generate_response invokes the backend exactly once,
\* whether the backend answers or raises, and is never repeated: a chat
\* request that reaches its completion call has made exactly one backend
\* invocation on its reply path, before and after the call ended, and an
\* extraction that has begun has made exactly one.
C19_OneBackendInvocationPerCall ==
    \A r \in Requests :
        /\ ai_calls[r] = (IF ReplyCallMade(r) THEN 1 ELSE 0)
        /\ ReplyCallEnded(r) => ReplyCallMade(r)
        /\ llm_calls[r] = (IF Started(r) THEN 1 ELSE 0)
        /\ ExtractionCallEnded(r) => Started(r)

\* on the route with the Groq adapter a request failed because the backend
\* raised, and its extraction got an error envelope as well: one
\* invocation each
C19_Witness ==
    \E r \in Requests :
        /\ route = "llm_chat_route_testing"
        /\ hpc[r] = "failed"
        /\ ReplyCallEnded(r)
        /\ ai_out[r].env.status = "error"
        /\ ai_calls[r] = 1
        /\ exit[r] = "llm_error"
        /\ llm_calls[r] = 1

\* ======================================================================
\* Properties of the update the extraction issues

\* the object the brace scan and json.loads extracted from reply text out:
\* its key/value pairs in dict order
ExtractedObject(out) ==
    LET stripped == StripText(out.env.text)
    IN  JsonLoads(Slice(stripped, Find(stripped, LB), RFind(stripped, RB) + 1)).obj

\* the pairs of the extracted object whose trimmed key is not empty
ValidPairs(out) == {e \in Range(ExtractedObject(out)) : StripKey(e.k) # <<>>}

\* the biography paths among the fields of task p's update
BiographyPaths(p) == {q \in DOMAIN pending[p] : q.field = "biography"}

\* C20: a successful run has issued exactly one partial-field update, and
\* the biography paths it set are exactly biography.<trim(k)> for the keys
\* k of the extracted object whose trimmed form is not empty, each with
\* the value of such a key (of that key, when no other key has the same
\* trimmed form); the stored biography holds these values and every other
\* key of it is as before.
C20_UpdateIsTheSanitizedFacts ==
    \A p \in Tasks :
        exit[p] = "saved" =>
            /\ writes[p] = 1
            /\ BiographyPaths(p) = {BioPath(StripKey(e.k)) : e \in ValidPairs(resp[p])}
            /\ \A e \in ValidPairs(resp[p]) :
                  (\A f \in ValidPairs(resp[p]) : StripKey(f.k) = StripKey(e.k) => f = e)
                      => pending[p][BioPath(StripKey(e.k))] = e.v
            /\ \A q \in BiographyPaths(p) :
                  \E e \in ValidPairs(resp[p]) :
                      StripKey(e.k) = q.key /\ pending[p][q] = e.v
            /\ last_writer = p =>
                  \A q \in BiographyPaths(p) : profile.biography[q.key] = pending[p][q]

\* a run saved an object with a whitespace-only key and a key that needed
\* trimming: one update, biography.loc only
C20_Witness ==
    /\ exit[1] = "saved"
    /\ writes[1] = 1
    /\ \E e \in Range(ExtractedObject(resp[1])) : e.k = <<WS>>
    /\ \E e \in Range(ExtractedObject(resp[1])) : e.k = <<WS, "loc", WS>>
    /\ BiographyPaths(1) = {BioPath(<<"loc">>)}

\* ======================================================================
\* Properties of the name alias

\* the update of task p carries a name fact
HasNameFact(p) == BioPath(<<"name">>) \in DOMAIN pending[p]

\* C21: a merge that writes biography.name sets first_name to the same
\* value in the same update, a merge without a name fact leaves first_name
\* as it was, and no other step touches first_name; so once a merge with a
\* name fact has been applied, also when two merges run concurrently,
\* first_name equals biography.name.
C21_NameAliasedInSameUpdate ==
    /\ [][\A p \in Tasks :
             Applying(p) =>
                 IF HasNameFact(p)
                 THEN /\ profile'.biography[<<"name">>] = pending[p][BioPath(<<"name">>)]
                      /\ profile'.first_name = pending[p][BioPath(<<"name">>)]
                 ELSE profile'.first_name = profile.first_name]_vars
    /\ [][(\A p \in Tasks : ~Applying(p)) => profile'.first_name = profile.first_name]_vars
    /\ []((\E p \in Tasks : exit[p] = "saved" /\ HasNameFact(p))
             => /\ <<"name">> \in DOMAIN profile.biography
                /\ profile.first_name = profile.biography[<<"name">>])

\* two concurrent merges carried different names; the one that started
\* first was applied last, and both fields hold its name
C21_Witness ==
    /\ BothSaved
    /\ HasNameFact(1) /\ HasNameFact(2)
    /\ pending[1][BioPath(<<"name">>)] # pending[2][BioPath(<<"name">>)]
    /\ call_order = <<1, 2>>
    /\ last_writer = 1
    /\ profile.first_name = pending[1][BioPath(<<"name">>)]
    /\ profile.biography[<<"name">>] = pending[1][BioPath(<<"name">>)]

\* ======================================================================
\* Properties of a repeated merge

\* the first of the two executions has saved its facts
FirstSaved == exit[1] = "saved"

\* C22: merging the same valid extracted set a second time changes
\* nothing: when the first execution has saved, the update of the second,
\* built from the same reply, leaves first_name and the biography as the
\* first left them, which is what one application to the initial document
\* gives.
C22_MergeIdempotent ==
    /\ [][(FirstSaved /\ Applying(2)) => profile' = profile]_vars
    /\ []((FirstSaved /\ exit[2] = "saved")
             => /\ pending[2] = pending[1]
                /\ profile = UpdateOneSet(InitialProfile, pending[1]))

\* an object with a name fact, a key that needed trimming and a blank key
\* has been merged twice
C22_Witness ==
    /\ BothSaved
    /\ last_writer = 2
    /\ writes[1] = 1 /\ writes[2] = 1
    /\ DOMAIN pending[2] = {BioPath(<<"name">>), BioPath(<<"loc">>), NamePath}
    /\ \E tk \in MembersOf(resp[2]) : tk.k = <<WS, "loc", WS>>
    /\ profile.first_name = profile.biography[<<"name">>]

\* ======================================================================
\* Properties of the brace scan

IsProse(tk) == tk \in {PROSE, SP, FENCE}

\* the reply is brace-free prose or fence markers, one object, brace-free
\* prose
ObjectInProse(t) ==
    \E i, j \in 1..Len(t) :
        /\ i < j
        /\ t[i] = LB /\ t[j] = RB
        /\ \A m \in 1..Len(t) : (m < i \/ m > j) => IsProse(t[m])
        /\ \A m \in (i + 1)..(j - 1) : t[m] = SP \/ t[m].t = "pair"

\* the last '}' of the reply stands before its first '{'
BracesReversed(t) ==
    /\ \E i \in 1..Len(t) : t[i] = LB
    /\ \E j \in 1..Len(t) : t[j] = RB
    /\ \A i, j \in 1..Len(t) : (t[i] = LB /\ t[j] = RB) => j < i

\* the object of such a reply: its members, as json.loads reads them
ObjectOf(t) == DictFromPairs(SelectSeq(t, LAMBDA tk : tk.t = "pair"))

\* what task p did is what the function does with the parsed value obj
HandledAs(p, obj) ==
    LET valid == {e \in Range(obj) : StripKey(e.k) # <<>>}
    IN  IF valid = {}
        THEN /\ writes[p] = 0
             /\ pc[p] = "returned"
             /\ exit[p] = (IF obj = <<>> THEN "no_facts" ELSE "no_valid_facts")
        ELSE /\ writes[p] = 1
             /\ BiographyPaths(p) = {BioPath(StripKey(e.k)) : e \in valid}
             /\ \A q \in BiographyPaths(p) :
                   \E e \in valid : StripKey(e.k) = q.key /\ pending[p][q] = e.v

\* C23: the text handed to json.loads is the reply from its first '{' to
\* its last '}': for a reply made of brace-free prose or fence markers, an
\* object and brace-free prose, the execution goes on with exactly that
\* object, and a reply whose last '}' stands before its first '{' causes
\* no write.
C23_BraceScanFindsObject ==
    \A p \in Tasks :
        Received(p) =>
            /\ ObjectInProse(resp[p].env.text) => HandledAs(p, ObjectOf(resp[p].env.text))
            /\ BracesReversed(resp[p].env.text) => writes[p] = 0 /\ pc[p] = "returned"

\* an object between a sentence, a fence marker and a closing sentence was
\* saved
C23_Witness ==
    /\ exit[1] = "saved"
    /\ ObjectInProse(resp[1].env.text)
    /\ resp[1].env.text[1] = PROSE
    /\ \E i \in 1..Len(resp[1].env.text) : resp[1].env.text[i] = FENCE
    /\ resp[1].env.text[Len(resp[1].env.text)] = PROSE
    /\ BiographyPaths(1) = {BioPath(<<"loc">>)}

\* ======================================================================
\* Properties of the stored values

\* C24: every value stored under a biography key is a string or a number.
C24_ValuesAreScalars ==
    \A k \in DOMAIN profile.biography :
        JsonTypeOf(profile.biography[k]) \in {"string", "number"}

\* ======================================================================
\* Properties of the single-label detection

\* the stripped message is in the short-token lexicon of the file
InLexicon ==
    IF lang_in.file = "prompt_builder" THEN InShortGreetings(Msg) ELSE InShortTokens(Msg)

\* the script, short-message and lexicon checks leave the message open
PastFirstTiers ==
    /\ lang_out.done
    /\ Msg.runs # <<>>
    /\ ~HasScript(Msg)
    /\ TextLen(Msg) >= ShortThreshold
    /\ ~InLexicon

IsDetectCall(c) == c \in {"detect", "detect:raised"}

IsDetectLangsCall(c) == c \in {"detect_langs", "detect_langs:raised"}

\* C25: for a non-empty message that the script, short-message and
\* lexicon checks leave open, the single-label detector is run on the
\* current message before anything is asked about the history: it is the
\* first detector call when the message is shorter than the 15-character
\* floor, and the call that follows the probabilistic one otherwise; when
\* it raises and there is no history, the result is the default.
C25_SingleLabelBeforeHistory ==
    /\ (PastFirstTiers /\ TextLen(Msg) < MIN_CHARS_FOR_RELIABLE_DETECTION)
          => /\ lang_out.calls # <<>>
             /\ IsDetectCall(lang_out.calls[1])
             /\ (lang_out.calls = <<"detect:raised">> /\ lang_in.lines = <<>>)
                   => lang_out.lang = SAFE_DEFAULT
    /\ (PastFirstTiers /\ TextLen(Msg) >= MIN_CHARS_FOR_RELIABLE_DETECTION)
          => /\ lang_out.calls # <<>>
             /\ IsDetectLangsCall(lang_out.calls[1])
             /\ Len(lang_out.calls) >= 2 => IsDetectCall(lang_out.calls[2])

\* ======================================================================
\* Properties of the roles of the two prompts

\* C26: in every completion call of the reply path the persona text of
\* system_prompt is the system instruction and the prompt of
\* build_pet_prompt is the user content.
C26_PersonaIsSystemPromptIsUser ==
    \A r \in Requests :
        ReplyCallMade(r) =>
            /\ sent[r].system = PersonaText(data[r].user.first_name)
            /\ sent[r].user.kind = "pet_prompt"

\* ======================================================================
\* Properties of the conversation store

\* the number of turns of a sender among the first n turns
NumTurns(sender, n) == Cardinality({i \in 1..n : convo[i].sender = sender})

\* the completion call of request r returned a reply text
ReplyTextReturned(r) ==
    /\ ReplyCallEnded(r)
    /\ ~ai_out[r].raised
    /\ ai_out[r].env.status = "success"
    /\ ~ai_out[r].env.none

\* C27: within a request the user turn is appended before the completion
\* call is issued, and the agent turn after the call returned a reply
\* text and before the response is returned, and in no other case: a
\* request whose completion fails adds no agent turn.  The store only
\* grows, by one turn per step, and at every point of it the agent turns
\* are no more than the user turns.
C27_TurnsInFixedOrder ==
    /\ [](Cardinality({r \in Requests : ReplyCallMade(r)}) <= NumTurns("user", Len(convo)))
    /\ [](Cardinality({r \in Requests : hpc[r] = "responded"}) = NumTurns("ai", Len(convo)))
    /\ [](\A r \in Requests :
             /\ hpc[r] \in {"saving_ai", "responded"} => ReplyTextReturned(r)
             /\ (ReplyCallEnded(r) /\ ~ReplyTextReturned(r)) => hpc[r] = "failed")
    /\ [](\A n \in 0..Len(convo) : NumTurns("ai", n) <= NumTurns("user", n))
    /\ [][\A r \in Requests :
             /\ (hpc[r] = "saving_user" /\ hpc'[r] \in {"await_ai", "failed"} /\ convo' # convo)
                   => convo' = Append(convo, Turn("user", ChatMessage)) /\ ai_calls[r] = 0
             /\ (hpc[r] = "saving_ai" /\ hpc'[r] = "responded")
                   => convo' = Append(convo, Turn("ai", reply[r].text))
             /\ (hpc[r] = "await_ai" /\ hpc'[r] # hpc[r]) => convo' = convo]_vars
    /\ [][convo' # convo => (Len(convo') = Len(convo) + 1 /\ SubSeq(convo', 1, Len(convo)) = convo)]_vars

\* one request failed in its completion call and left its user turn, the
\* other was answered: two user turns, one agent turn
C27_Witness ==
    \E r, q \in Requests :
        /\ hpc[r] = "failed"
        /\ ReplyCallEnded(r) /\ ~ReplyTextReturned(r)
        /\ hpc[q] = "responded"
        /\ NumTurns("user", Len(convo)) = 2
        /\ NumTurns("ai", Len(convo)) = 1
        /\ convo[Len(convo)].sender = "user"

\* ======================================================================
\* Properties of the history fallback inside build_pet_prompt

\* the lines of the memory snippet that the route wrote for the owner and
\* that carry text
OwnerTurns ==
    {i \in 1..Len(prompt_in.lines) :
        /\ prompt_in.lines[i].who = prompt_in.owner_name
        /\ TextStrip(prompt_in.lines[i].text).runs # <<>>}

\* the text of the most recent of them
MostRecentOwnerText ==
    TextStrip(prompt_in.lines[CHOOSE i \in OwnerTurns : \A j \in OwnerTurns : j <= i].text)

\* what examining a line's text can give in the file of the call
ExaminedAs(t) ==
    {IF r.lang # None THEN r.lang ELSE SAFE_DEFAULT :
        r \in IF prompt_in.file = "prompt_builder" THEN TiersMain(t) ELSE TiersTestPrevious(t)}

\* C28: when the current message is empty after trimming and the memory
\* snippet holds an owner turn with text, the language of the prompt is
\* what the examination of the most recent owner turn gives, also when
\* the pet's knowledge_base names another owner than the one the route
\* prefixed the owner lines with.
C28_HistoryFindsOwnerTurn ==
    (/\ prompt_out.done
     /\ ~prompt_out.prompt.raised
     /\ TextStrip(prompt_in.message).runs = <<>>
     /\ OwnerTurns # {})
        => prompt_out.prompt.lang \in ExaminedAs(MostRecentOwnerText)

====
